---- MODULE Spec2Model ----
(***************************************************************************)
(* Verification model of the vekotin decoding pipeline: the bit-level      *)
(* stream reader (fiddling), the canonical Huffman alphabet, the DEFLATE   *)
(* block decompressor (compression::deflate) and the zlib header           *)
(* (compression::zlib).                                                    *)
(***************************************************************************)
EXTENDS Integers, Sequences, FiniteSets, TLC

(***************************************************************************)
(* Machine integers.  A u64 is kept as four 16-bit limbs, least            *)
(* significant first, so that 32-bit results stay exact.                   *)
(***************************************************************************)
W16 == 2 ^ 16

\* stands for 2^64 in usize wrap-around (all real quantities are below 2^10)
UsizeMod == 2^30

Min(a, b) == IF a < b THEN a ELSE b

RECURSIVE BitAnd(_, _)
BitAnd(a, b) ==
    IF a = 0 \/ b = 0 THEN 0
    ELSE (a % 2) * (b % 2) + 2 * BitAnd(a \div 2, b \div 2)

RECURSIVE BitOr(_, _)
BitOr(a, b) ==
    IF a = 0 THEN b
    ELSE IF b = 0 THEN a
    ELSE (IF a % 2 = 1 \/ b % 2 = 1 THEN 1 ELSE 0) + 2 * BitOr(a \div 2, b \div 2)

U64Zero == <<0, 0, 0, 0>>

\* x as u64, for x below 2^31
U64Of(x) == <<x % W16, x \div W16, 0, 0>>

\* v << k on u64 for k in 0..15 (bits shifted out of the top are lost)
U64Shl(v, k) ==
    LET p == 2 ^ k
        c1 == (v[1] * p) \div W16
        c2 == (v[2] * p + c1) \div W16
        c3 == (v[3] * p + c2) \div W16
    IN <<(v[1] * p) % W16, (v[2] * p + c1) % W16,
         (v[3] * p + c2) % W16, (v[4] * p + c3) % W16>>

\* v | w on u64
U64Or(v, w) == [i \in 1..4 |-> BitOr(v[i], w[i])]

\* v + w on u64 (wrapping)
U64Add(v, w) ==
    LET s1 == v[1] + w[1]
        s2 == v[2] + w[2] + s1 \div W16
        s3 == v[3] + w[3] + s2 \div W16
        s4 == v[4] + w[4] + s3 \div W16
    IN <<s1 % W16, s2 % W16, s3 % W16, s4 % W16>>

\* (x as u64) << s for a byte x and s in 0..63
U64ShlByte(x, s) ==
    LET i == s \div 16
        y == x * (2 ^ (s % 16))
    IN [j \in 1..4 |-> IF j = i + 1 THEN y % W16
                        ELSE IF j = i + 2 THEN y \div W16
                        ELSE 0]

\* v as u16
AsU16(v) == v[1]

\* v as u8
AsU8(v) == v[1] % 256

(***************************************************************************)
(* fiddling: bit helpers                                                   *)
(***************************************************************************)
reverse_bits_of(b) ==
    LET b1 == BitOr(BitAnd(b, 240) \div 16, (BitAnd(b, 15) * 16) % 256)
        b2 == BitOr(BitAnd(b1, 204) \div 4, (BitAnd(b1, 51) * 4) % 256)
    IN BitOr(BitAnd(b2, 170) \div 2, (BitAnd(b2, 85) * 2) % 256)

\* reverse_bits of every byte, computed once
ReversedByte == [b \in 0..255 |-> reverse_bits_of(b)]

\* a reversal that stops after swapping the nibbles
reverse_bits_nibbles(b) == BitOr(BitAnd(b, 240) \div 16, (BitAnd(b, 15) * 16) % 256)

reverse_bits(b) == ReversedByte[b]

FIRST_N_BITS == <<0, 1, 3, 7, 15, 31, 63, 127, 255>>

\* byte & mask for every byte and every entry of FIRST_N_BITS, computed once
MaskedByte == [i \in 1..9 |-> [b \in 0..255 |-> BitAnd(b, FIRST_N_BITS[i])]]

first_n_bits(byte, n) == MaskedByte[Min(n, 8) + 1][byte]

last_n_bits(byte, n) ==
    IF n >= 8 THEN byte
    ELSE IF n = 0 THEN 0
    ELSE byte \div (2 ^ (8 - n))

\* the whole-byte loop of n_bits_by_index; r = "panic" on an index out of bounds
RECURSIVE n_bits_loop(_, _, _, _, _, _)
n_bits_loop(bytes, n_bits, n, byte_idx, acc, bit_order) ==
    IF n = 0 THEN [r |-> "ok", v |-> acc]
    ELSE IF byte_idx >= Len(bytes) THEN [r |-> "panic", v |-> U64Zero]
    ELSE LET n_bits_read == Min(n, 8)
             byte == bytes[byte_idx + 1]
             acc2 == IF bit_order = "MsbFirst"
                     THEN U64Or(U64Shl(acc, n_bits_read),
                                U64Of(last_n_bits(reverse_bits(byte), n_bits_read)))
                     ELSE U64Add(acc, U64ShlByte(first_n_bits(byte, n_bits_read),
                                                 n_bits - n))
         IN n_bits_loop(bytes, n_bits, n - n_bits_read, byte_idx + 1, acc2, bit_order)

n_bits_by_index(bytes, n_bits, bit_idx, bit_order) ==
    IF n_bits > 64 THEN [r |-> "panic", v |-> U64Zero]
    ELSE
    LET original_byte_idx == bit_idx \div 8
        within_byte_idx == bit_idx % 8
    IN IF within_byte_idx # 0
       THEN IF original_byte_idx >= Len(bytes) THEN [r |-> "panic", v |-> U64Zero]
            ELSE
            LET last_n == 8 - within_byte_idx
                n_bits_read == Min(last_n, n_bits)
                lsb == first_n_bits(last_n_bits(bytes[original_byte_idx + 1], last_n),
                                    n_bits)
                first == IF bit_order = "MsbFirst"
                         THEN last_n_bits(reverse_bits(lsb % 256), n_bits_read)
                         ELSE lsb
            IN n_bits_loop(bytes, n_bits, n_bits - n_bits_read,
                           original_byte_idx + 1, U64Of(first), bit_order)
       ELSE n_bits_loop(bytes, n_bits, n_bits, original_byte_idx, U64Zero, bit_order)

(***************************************************************************)
(* State                                                                   *)
(***************************************************************************)
VARIABLES
    input,            \* the whole byte sequence handed to the reader
    inner,            \* BitStream.inner: the bytes the source has not yet given out
    buf,              \* BitStream.buf
    read_bit_pos,     \* BitStream.read_bit_pos
    load_byte_pos,    \* BitStream.load_byte_pos
    overflow_checks,  \* build profile: TRUE panics on usize overflow, FALSE wraps
    eof_mode,         \* what the source's read_exact does when it runs dry
    panicked,         \* an assertion, overflow or bounds check has aborted the program
    last,             \* the last call, its outcome and whether it compacted buf
    pos,              \* bits consumed so far by read_bits (kept while pure)
    pure,             \* only peek_bits and read_bits have been called
    failed,           \* some call has returned an end-of-input error
    alphabet_lengths, \* the (symbol, length) list a HuffmanAlphabet is built from
    message,          \* the symbols whose codes the input holds
    decoded,          \* what the read_next calls made so far have returned
    prefix,           \* a 9-bit prefix looked up in the fixed literal/length tables
    resolved,         \* what the three fixed tables hold for prefix
    blocks,           \* the blocks the input was put together from
    output,           \* decompress_blocks' out_buf
    pc,               \* where decompress_blocks is: "header", "block" or "returned"
    returned,         \* what decompress_blocks returned
    block_header,     \* decompress_blocks' block_header
    n_blocks,         \* the number of blocks completed
    header_at,        \* the input position, in bits, where block_header was read
    locals            \* the local variables of the block function being run

streamvars == <<input, inner, buf, read_bit_pos, load_byte_pos, overflow_checks,
                eof_mode, panicked>>

callvars == <<last, pos, pure, failed>>

huffvars == <<alphabet_lengths, message, decoded>>

fixvars == <<prefix, resolved>>

blockvars == <<blocks, output, pc, returned, block_header, n_blocks, header_at>>

loopvars == <<locals>>

vars == <<streamvars, callvars, huffvars, fixvars, blockvars, loopvars>>

(***************************************************************************)
(* fiddling::BitStream, as operators on a record of its fields.  Every     *)
(* operator returns [r, s, v]: r is "ok", "err" (io::Error) or "panic",    *)
(* s the stream afterwards and v the value returned.                       *)
(***************************************************************************)
BUF_LEN == 5

BitOrder == {"MsbFirst", "LsbFirst"}

\* What Read::read_exact leaves behind when the source ends early; its
\* contract leaves the number of bytes consumed unspecified: the slice
\* reader of older toolchains consumes nothing, the newer one and the
\* default implementation drain the source.
EofModes == {"keep", "drain"}

Ret(r, s, v) == [r |-> r, s |-> s, v |-> v]

\* the ? operator: the error (or the panic) of res ends the function, a
\* success goes on with F
Then(res, F(_)) == IF res.r # "ok" THEN res ELSE F(res)

\* the outcome and value of nb with the stream s
Located(nb, s) == Ret(nb.r, s, nb.v)

\* the outcome and stream of res with the value v
Valued(res, v) == Ret(res.r, res.s, v)

new(bytes) ==
    [inner |-> bytes, buf |-> [i \in 1..BUF_LEN |-> 0],
     read_bit_pos |-> 0, load_byte_pos |-> 0]

Stream == [inner |-> inner, buf |-> buf,
           read_bit_pos |-> read_bit_pos, load_byte_pos |-> load_byte_pos]

read_byte_pos(s) == s.read_bit_pos \div 8

\* self.inner.read_exact(&mut self.buf[from..from + n_bytes])
read_exact(s, n_bytes, eof) ==
    LET from == s.load_byte_pos
        have == Len(s.inner)
    IN IF have >= n_bytes
       THEN Ret("ok",
                [s EXCEPT !.buf = [i \in 1..BUF_LEN |->
                                     IF i > from /\ i <= from + n_bytes
                                     THEN s.inner[i - from] ELSE s.buf[i]],
                          !.inner = SubSeq(s.inner, n_bytes + 1, have)],
                U64Zero)
       ELSE Ret("err",
                [s EXCEPT !.inner = IF eof = "keep" THEN s.inner ELSE <<>>],
                U64Zero)

load_bytes(s, n_bytes, eof) ==
    IF s.load_byte_pos + n_bytes > BUF_LEN THEN Ret("panic", s, U64Zero)
    ELSE LET rd == read_exact(s, n_bytes, eof)
         IN IF rd.r # "ok" THEN rd
            ELSE Ret("ok", [rd.s EXCEPT !.load_byte_pos = s.load_byte_pos + n_bytes],
                     U64Zero)

\* for i in from..to { buf[i - by] = buf[i] }
RECURSIVE rewind_copy(_, _, _, _)
rewind_copy(b, i, to, by) ==
    IF i >= to THEN b
    ELSE rewind_copy([b EXCEPT ![i - by + 1] = b[i + 1]], i + 1, to, by)

\* a rewind that moves the positions but leaves the unread bytes where they were
rewind_buffer_no_copy(s) ==
    LET rbp == read_byte_pos(s)
    IN IF rbp = 0 THEN Ret("ok", s, U64Zero)
       ELSE Ret("ok",
                [s EXCEPT !.read_bit_pos = s.read_bit_pos % 8,
                          !.load_byte_pos = (s.load_byte_pos - rbp) % UsizeMod],
                U64Zero)

rewind_buffer(s) ==
    LET rbp == read_byte_pos(s)
    IN IF rbp = 0 THEN Ret("ok", s, U64Zero)
       ELSE IF rbp > s.load_byte_pos /\ overflow_checks THEN Ret("panic", s, U64Zero)
       ELSE Ret("ok",
                [s EXCEPT !.buf = IF rbp < s.load_byte_pos
                                  THEN rewind_copy(s.buf, rbp, s.load_byte_pos, rbp)
                                  ELSE s.buf,
                          !.read_bit_pos = s.read_bit_pos % 8,
                          !.load_byte_pos = (s.load_byte_pos - rbp) % UsizeMod],
                U64Zero)

reset(s) == [s EXCEPT !.load_byte_pos = 0, !.read_bit_pos = 0]

\* 8 * load_byte_pos - read_bit_pos in usize; r = "panic" when the build checks overflow
readable_bits(s) ==
    LET d == 8 * s.load_byte_pos - s.read_bit_pos
    IN IF d >= 0 THEN [r |-> "ok", v |-> d]
       ELSE IF overflow_checks THEN [r |-> "panic", v |-> 0]
       ELSE [r |-> "ok", v |-> d + UsizeMod]

loadable_bits(s) == 8 * (BUF_LEN - s.load_byte_pos)

can_read_from_current_buf(s, n_bits) ==
    LET rb == readable_bits(s)
    IN [r |-> rb.r, v |-> n_bits <= rb.v]

is_at_byte_boundary(s) == s.read_bit_pos % 8 = 0

\* a refill that makes room only once the buffer is full
ensure_readable_bits_rewinding_when_full(s, n_bits, eof) ==
    LET can == can_read_from_current_buf(s, n_bits)
    IN IF can.r = "panic" THEN Ret("panic", s, U64Zero)
       ELSE IF can.v THEN Ret("ok", s, U64Zero)
       ELSE LET bits_to_read == n_bits - readable_bits(s).v
                rw == IF loadable_bits(s) = 0
                      THEN rewind_buffer(s) ELSE Ret("ok", s, U64Zero)
            IN IF rw.r # "ok" THEN rw
               ELSE load_bytes(rw.s, (bits_to_read + 7) \div 8, eof)

ensure_readable_bits(s, n_bits, eof) ==
    LET can == can_read_from_current_buf(s, n_bits)
    IN IF can.r = "panic" THEN Ret("panic", s, U64Zero)
       ELSE IF can.v THEN Ret("ok", s, U64Zero)
       ELSE LET bits_to_read == n_bits - readable_bits(s).v
                rw == IF loadable_bits(s) < bits_to_read
                      THEN rewind_buffer(s) ELSE Ret("ok", s, U64Zero)
            IN IF rw.r # "ok" THEN rw
               ELSE load_bytes(rw.s, (bits_to_read + 7) \div 8, eof)

\* a peek that consumes what it returns
peek_bits_consuming(s, n, bo, eof) ==
    IF n > (BUF_LEN - 1) * 8 THEN Ret("panic", s, U64Zero)
    ELSE Then(ensure_readable_bits(s, n, eof),
              LAMBDA e : Located(n_bits_by_index(e.s.buf, n, e.s.read_bit_pos, bo),
                                 [e.s EXCEPT !.read_bit_pos = e.s.read_bit_pos + n]))

peek_bits(s, n, bo, eof) ==
    IF n > (BUF_LEN - 1) * 8 THEN Ret("panic", s, U64Zero)
    ELSE Then(ensure_readable_bits(s, n, eof),
              LAMBDA e : Located(n_bits_by_index(e.s.buf, n, e.s.read_bit_pos, bo),
                                 e.s))

skip_bits(s, n) ==
    IF n > (BUF_LEN - 1) * 8 THEN Ret("panic", s, U64Zero)
    ELSE Ret("ok", [s EXCEPT !.read_bit_pos = s.read_bit_pos + n], U64Zero)

read_bits(s, n, bo, eof) ==
    Then(peek_bits(s, n, bo, eof),
         LAMBDA result : Valued(skip_bits(result.s, n), result.v))

skip_to_next_byte(s) == skip_bits(s, 8 - (s.read_bit_pos % 8))

skip_to_start_of_byte(s) ==
    IF ~is_at_byte_boundary(s) THEN skip_to_next_byte(s) ELSE Ret("ok", s, U64Zero)

read_next_byte(s, eof) ==
    Then(ensure_readable_bits(skip_to_start_of_byte(s).s, 8, eof),
         LAMBDA e :
            IF read_byte_pos(e.s) >= BUF_LEN THEN Ret("panic", e.s, U64Zero)
            ELSE Ret("ok", [e.s EXCEPT !.read_bit_pos = e.s.read_bit_pos + 8],
                     U64Of(e.s.buf[read_byte_pos(e.s) + 1])))

read_u16_be(s, eof) ==
    Then(read_next_byte(s, eof),
         LAMBDA b0 :
            Then(read_next_byte(b0.s, eof),
                 LAMBDA b1 : Ret("ok", b1.s, U64Of(256 * AsU8(b0.v) + AsU8(b1.v)))))

read_u16_le(s, eof) ==
    Then(read_next_byte(s, eof),
         LAMBDA b0 :
            Then(read_next_byte(b0.s, eof),
                 LAMBDA b1 : Ret("ok", b1.s, U64Of(AsU8(b0.v) + 256 * AsU8(b1.v)))))

get_mut(s) == reset(s)

(***************************************************************************)
(* Specification SpecBits: any sequence of public BitStream calls          *)
(***************************************************************************)
\* the input of tests::test_multiple_reads
TestBytes == <<1, 35, 69, 103, 137, 171, 205, 239, 255, 171, 205, 239>>

\* the input of the BitStream doctest
DocBytes == <<85, 51>>

MaxInputLen == 6

MaxBitPos == 40

Inputs == {DocBytes, SubSeq(TestBytes, 1, MaxInputLen)}

NBits == {0, 3, 9, 32, 33}

SkipCounts == {32}

NoCall == [op |-> "new", r |-> "ok", compacted |-> FALSE]

\* decompress_blocks has not been called
\* no block function is being run
NoLocals == [fn |-> "none"]

NoBlocks ==
    /\ blocks = <<>> /\ output = <<>> /\ pc = "idle" /\ returned = "none"
    /\ block_header = [is_final |-> FALSE, compression_type |-> "None"]
    /\ n_blocks = 0 /\ header_at = 0
    /\ locals = NoLocals

NotResolved == [static_alphabet |-> -1, FIXED_HUFFMAN_TABLE |-> -1,
                STATIC_LITERAL_ALPHABET |-> -1]

InitBits ==
    /\ input \in Inputs
    /\ inner = input
    /\ buf = new(input).buf
    /\ read_bit_pos = new(input).read_bit_pos
    /\ load_byte_pos = new(input).load_byte_pos
    /\ overflow_checks \in BOOLEAN
    /\ eof_mode \in EofModes
    /\ panicked = FALSE
    /\ last = NoCall
    /\ pos = 0
    /\ pure = TRUE
    /\ failed = FALSE
    /\ alphabet_lengths = <<>> /\ message = <<>> /\ decoded = <<>>
    /\ prefix = 0 /\ resolved = NotResolved
    /\ NoBlocks

\* the program state after a call that returned res
Returned(res) ==
    /\ panicked' = (res.r = "panic")
    /\ IF res.r = "panic"
       THEN UNCHANGED <<inner, buf, read_bit_pos, load_byte_pos>>
       ELSE /\ inner' = res.s.inner
            /\ buf' = res.s.buf
            /\ read_bit_pos' = res.s.read_bit_pos
            /\ load_byte_pos' = res.s.load_byte_pos
    /\ UNCHANGED <<input, overflow_checks, eof_mode>>

\* bookkeeping of a call op(n, bo) that returned res and consumes adv bits
Called(op, n, bo, res, adv) ==
    /\ ~panicked
    /\ Returned(res)
    /\ last' = [op |-> op, r |-> res.r,
                compacted |-> (res.r # "panic"
                               /\ res.s.read_bit_pos < read_bit_pos)]
    /\ pure' = (pure /\ op \in {"peek_bits", "read_bits"})
    /\ pos' = IF ~pure' THEN 0 ELSE IF res.r = "ok" THEN pos + adv ELSE pos
    /\ failed' = (failed \/ res.r = "err")
    /\ UNCHANGED <<huffvars, fixvars, blockvars, loopvars>>

ToBoundary(p) == IF p % 8 = 0 THEN 0 ELSE 8 - (p % 8)

PeekBits ==
    \E n \in NBits, bo \in BitOrder :
        Called("peek_bits", n, bo, peek_bits(Stream, n, bo, eof_mode), 0)

ReadBits ==
    \E n \in NBits, bo \in BitOrder :
        Called("read_bits", n, bo, read_bits(Stream, n, bo, eof_mode), n)

SkipBits ==
    \E n \in SkipCounts :
        /\ read_bit_pos + n <= MaxBitPos
        /\ Called("skip_bits", n, "LsbFirst", skip_bits(Stream, n), n)

SkipToNextByte ==
    /\ read_bit_pos + 8 <= MaxBitPos
    /\ Called("skip_to_next_byte", 0, "LsbFirst", skip_to_next_byte(Stream),
              8 - (pos % 8))

SkipToStartOfByte ==
    /\ read_bit_pos + 8 <= MaxBitPos
    /\ Called("skip_to_start_of_byte", 0, "LsbFirst", skip_to_start_of_byte(Stream),
              ToBoundary(pos))

ReadNextByte ==
    /\ read_bit_pos + 16 <= MaxBitPos
    /\ Called("read_next_byte", 8, "LsbFirst", read_next_byte(Stream, eof_mode),
              ToBoundary(pos) + 8)

ReadU16Le ==
    /\ read_bit_pos + 24 <= MaxBitPos
    /\ Called("read_u16_le", 16, "LsbFirst", read_u16_le(Stream, eof_mode),
              ToBoundary(pos) + 16)

NextBits ==
    \/ PeekBits
    \/ ReadBits
    \/ SkipBits
    \/ SkipToNextByte
    \/ SkipToStartOfByte
    \/ ReadNextByte
    \/ ReadU16Le

SpecBits == InitBits /\ [][NextBits]_vars

(***************************************************************************)
(* Properties of the bit reader                                            *)
(***************************************************************************)
\* widths tried from every reachable state
CheckBits == {0, 1, 7, 8, 9, 17, 32}

\* widths of the documented range 0..64 that go beyond CheckBits
WideBits == CheckBits \cup {33, 48, 64}

InputBits == 8 * Len(input)

\* bit p of a byte sequence, counting from the least significant bit of byte 0
LowBit(bytes, p) == (bytes[p \div 8 + 1] \div (2 ^ (p % 8))) % 2

\* bit p of a byte sequence, counting from the most significant bit of byte 0
HighBit(bytes, p) == (bytes[p \div 8 + 1] \div (2 ^ (7 - (p % 8)))) % 2

RECURSIVE Weigh(_, _, _)
Weigh(bits, i, hi) == IF i > hi THEN 0 ELSE bits[i] + 2 * Weigh(bits, i + 1, hi)

\* the u64 whose bit i-1 is bits[i]
PackBits(bits) ==
    [j \in 1..4 |-> Weigh(bits, 16 * (j - 1) + 1, Min(16 * j, Len(bits)))]

Reversed(bits) == [i \in 1..Len(bits) |-> bits[Len(bits) + 1 - i]]

\* n bits from offset at, low-to-high within each byte, the first one least significant
LowToHighFirstLeast(bytes, n, at) ==
    PackBits([i \in 1..n |-> LowBit(bytes, at + i - 1)])

\* n bits from offset at, low-to-high within each byte, the first one most significant
LowToHighFirstMost(bytes, n, at) ==
    PackBits(Reversed([i \in 1..n |-> LowBit(bytes, at + i - 1)]))

\* n bits from offset at, high-to-low within each byte, the first one most significant
HighToLowFirstMost(bytes, n, at) ==
    PackBits(Reversed([i \in 1..n |-> HighBit(bytes, at + i - 1)]))

\* states reached by peek_bits and read_bits alone, none of which failed
CleanReads == pure /\ ~failed /\ ~panicked

\* C1: after any sequence of successful reads and peeks, the next read_bits or
\* peek_bits of n bits that lie within the input succeeds and returns what
\* n_bits_by_index computes on the whole input at the offset that is the sum
\* of the widths read so far, whatever refills and compactions happened.
ReadsAreConsecutive ==
    CleanReads =>
        \A n \in CheckBits, bo \in BitOrder :
            pos + n <= InputBits =>
                LET rd == read_bits(Stream, n, bo, eof_mode)
                    pk == peek_bits(Stream, n, bo, eof_mode)
                    want == n_bits_by_index(input, n, pos, bo).v
                IN /\ rd.r = "ok" /\ rd.v = want
                   /\ pk.r = "ok" /\ pk.v = want

ReadsAreConsecutiveWitness ==
    /\ CleanReads
    /\ last.op = "read_bits" /\ last.r = "ok" /\ last.compacted
    /\ pos >= 41

\* position of the stream s in the input, in bits
AbsPos(s) == 8 * (Len(input) - Len(s.inner) - s.load_byte_pos) + s.read_bit_pos

\* C2: from every reachable state, a successful peek_bits(n, order) leaves the
\* logical position where it was, and a second peek_bits(n, order) or a
\* read_bits(n, order) right after it returns the same value.
PeekDoesNotAdvance ==
    ~panicked =>
        \A n \in CheckBits, bo \in BitOrder :
            LET p1 == peek_bits(Stream, n, bo, eof_mode)
                p2 == peek_bits(p1.s, n, bo, eof_mode)
                rd == read_bits(p1.s, n, bo, eof_mode)
            IN p1.r = "ok" =>
                 /\ AbsPos(p1.s) = AbsPos(Stream)
                 /\ p2.r = "ok" /\ p2.v = p1.v
                 /\ rd.r = "ok" /\ rd.v = p1.v

PeekDoesNotAdvanceWitness ==
    /\ last.op = "peek_bits" /\ last.r = "ok" /\ last.compacted
    /\ ~panicked /\ load_byte_pos >= 2

\* C3: the read position never exceeds the loaded bits.
PositionWithinLoaded == read_bit_pos <= 8 * load_byte_pos

\* C4 as claimed: MsbFirst takes the bits of each byte from bit 7 down,
\* LsbFirst from bit 0 up.
BitOrderAsClaimed ==
    CleanReads =>
        \A n \in CheckBits, bo \in BitOrder :
            pos + n <= InputBits =>
                peek_bits(Stream, n, bo, eof_mode).v =
                    IF bo = "MsbFirst" THEN HighToLowFirstMost(input, n, pos)
                    ELSE LowToHighFirstLeast(input, n, pos)

\* C4 as amended: both orders take the bits of each byte from bit 0 up; with
\* MsbFirst the first bit taken becomes the most significant bit of the
\* result, with LsbFirst the least significant.
BitOrderLowToHigh ==
    CleanReads =>
        \A n \in CheckBits, bo \in BitOrder :
            pos + n <= InputBits =>
                peek_bits(Stream, n, bo, eof_mode).v =
                    IF bo = "MsbFirst" THEN LowToHighFirstMost(input, n, pos)
                    ELSE LowToHighFirstLeast(input, n, pos)

BitOrderLowToHighWitness ==
    /\ CleanReads
    /\ last.op = "read_bits" /\ last.r = "ok"
    /\ pos % 8 = 3 /\ pos > 8 /\ pos + 9 <= InputBits

\* C5: every width from 0 to 64 that the input still holds can be peeked and read.
WidthsUpTo64 ==
    CleanReads =>
        \A n \in WideBits, bo \in BitOrder :
            pos + n <= InputBits =>
                /\ peek_bits(Stream, n, bo, eof_mode).r = "ok"
                /\ read_bits(Stream, n, bo, eof_mode).r = "ok"

\* C6: after a failed peek_bits or read_bits, a peek of bits that the input
\* still holds behind the read position succeeds with the value it would have
\* had without the failed call.
PeekAfterFailure ==
    (pure /\ failed /\ ~panicked) =>
        \A m \in CheckBits, bo \in BitOrder :
            pos + m <= InputBits =>
                LET pk == peek_bits(Stream, m, bo, eof_mode)
                IN pk.r = "ok" /\ pk.v = n_bits_by_index(input, m, pos, bo).v

(***************************************************************************)
(* deflate::HuffmanAlphabet                                                *)
(***************************************************************************)
\* result of a u16 operation that overflowed in a build with overflow checks
Overflow == 0 - 1

\* a + b on u16
u16_add(a, b, oc) ==
    IF a = Overflow \/ b = Overflow THEN Overflow
    ELSE IF a + b < W16 THEN a + b
    ELSE IF oc THEN Overflow ELSE (a + b) % W16

\* a << k on u16: the bits shifted out are dropped
u16_shl(a, k) == IF a = Overflow THEN Overflow ELSE (a * (2 ^ k)) % W16

\* code_lengths.iter().filter(|&(_, length)| *length > 0)
non_zero(code_lengths) == SelectSeq(code_lengths, LAMBDA e : e[2] > 0)

Largest(S) == CHOOSE x \in S : \A y \in S : y <= x

\* for bits in 1..bl_count.len() + 1 { code = (code + bl_count[bits - 1]) << 1; ... }
RECURSIVE next_code_loop(_, _, _, _, _)
next_code_loop(bl_count, bits, code, next_code, oc) ==
    IF bits > Len(bl_count) THEN next_code
    ELSE LET c == u16_shl(u16_add(code, bl_count[bits], oc), 1)
         IN next_code_loop(bl_count, bits + 1, c, [next_code EXCEPT ![bits + 1] = c], oc)

\* bl_count and next_code are kept as sequences: element k of the vector is
\* element k + 1 of the sequence.  The loop over the tree hands next_code[len]
\* to the first entry of length len and one more to each later one, so an
\* entry receives next_code[len] plus the number of entries of its length
\* before it.
assign_codes(code_lengths, max_code_length, oc) ==
    LET bl_count == [k \in 1..(max_code_length + 1) |->
                        IF k = 1 THEN 0
                        ELSE Cardinality({i \in DOMAIN code_lengths :
                                             code_lengths[i][2] = k - 1})]
        next_code == next_code_loop(bl_count, 1, 0,
                                    [k \in 1..(Len(bl_count) + 1) |-> 0], oc)
    IN [i \in DOMAIN code_lengths |->
           [symbol |-> code_lengths[i][1],
            length |-> code_lengths[i][2],
            code |-> IF code_lengths[i][2] = 0 THEN 0
                     ELSE u16_add(next_code[code_lengths[i][2] + 1],
                                  Cardinality({j \in 1..(i - 1) :
                                      code_lengths[j][2] = code_lengths[i][2]}),
                                  oc)]]

\* first and one-past-last lut index that entry e fills
lut_segment_start(e, max_code_length) == u16_shl(e.code, max_code_length - e.length)

lut_segment_end(e, max_code_length, oc) ==
    u16_shl(u16_add(e.code, 1, oc), max_code_length - e.length)

\* The lut vector is kept as the segments the fill loop writes, one for each
\* entry in order.  lut_at is lut[code]: the last entry whose segment holds
\* code, as tree_idx + 1, or 0 for None.
lut_at(alphabet, code) ==
    LET hits == {i \in DOMAIN alphabet.lut :
                    alphabet.lut[i].start <= code /\ code < alphabet.lut[i].end}
    IN IF hits = {} THEN 0 ELSE Largest(hits)

from_code_lengths(code_lengths, oc) ==
    LET non_zero_code_lengths == non_zero(code_lengths)
    IN IF non_zero_code_lengths = <<>> THEN [r |-> "panic"]
       ELSE LET max_code_length ==
                    Largest({non_zero_code_lengths[i][2] :
                                i \in DOMAIN non_zero_code_lengths})
                symbol_entries ==
                    assign_codes(non_zero_code_lengths, max_code_length, oc)
            IN IF max_code_length >= 16 THEN [r |-> "panic"]
               ELSE IF \E i \in DOMAIN symbol_entries :
                          \/ symbol_entries[i].code = Overflow
                          \/ u16_add(symbol_entries[i].code, 1, oc) = Overflow
               THEN [r |-> "panic"]
               ELSE [r |-> "ok",
                     symbol_entries |-> symbol_entries,
                     lut |-> [i \in DOMAIN symbol_entries |->
                                [start |-> lut_segment_start(symbol_entries[i],
                                                             max_code_length),
                                 end |-> lut_segment_end(symbol_entries[i],
                                                         max_code_length, oc)]],
                     max_lut_code |-> 2 ^ max_code_length - 1,
                     max_code_length |-> max_code_length]

\* Option<S>: <<symbol>> for Some(symbol), <<>> for None
lookup(alphabet, code) ==
    IF code > alphabet.max_lut_code THEN [r |-> "panic", v |-> <<>>]
    ELSE IF lut_at(alphabet, code) = 0 THEN [r |-> "ok", v |-> <<>>]
    ELSE [r |-> "ok", v |-> <<alphabet.symbol_entries[lut_at(alphabet, code)].symbol>>]

read_next_skipping_max(alphabet, s, eof) ==
    Then(peek_bits(s, alphabet.max_code_length, "MsbFirst", eof),
         LAMBDA pk :
            LET code == AsU16(pk.v)
                tree_idx == lut_at(alphabet, code)
            IN IF code > alphabet.max_lut_code THEN Ret("panic", pk.s, 0)
               ELSE IF tree_idx = 0 THEN Ret("bail", pk.s, 0)
               ELSE Valued(skip_bits(pk.s, alphabet.max_code_length),
                           alphabet.symbol_entries[tree_idx].symbol))

\* r is "bail" for the error raised by bail!, "err" for an io::Error
read_next(alphabet, s, eof) ==
    Then(peek_bits(s, alphabet.max_code_length, "MsbFirst", eof),
         LAMBDA pk :
            LET code == AsU16(pk.v)
                tree_idx == lut_at(alphabet, code)
            IN IF code > alphabet.max_lut_code THEN Ret("panic", pk.s, 0)
               ELSE IF tree_idx = 0 THEN Ret("bail", pk.s, 0)
               ELSE Valued(skip_bits(pk.s, alphabet.symbol_entries[tree_idx].length),
                           alphabet.symbol_entries[tree_idx].symbol))

(***************************************************************************)
(* Specification SpecHuff: read_next called repeatedly on the encoding of  *)
(* a message                                                               *)
(***************************************************************************)
\* the code lengths of the read_next doctest: A..E = 3, F = 2, G, H = 4
RfcExample == <<<<65, 3>>, <<66, 3>>, <<67, 3>>, <<68, 3>>, <<69, 3>>, <<70, 2>>,
                <<71, 4>>, <<72, 4>>>>

\* lengths with unused symbols, as copy_dynamic_huffman_block builds them
WithHoles == <<<<0, 0>>, <<1, 2>>, <<2, 0>>, <<3, 1>>, <<4, 2>>>>

\* codes of the largest length from_code_lengths accepts
Deep == <<<<0, 1>>, <<1, 15>>, <<2, 15>>>>

\* a single code of one bit
Single == <<<<7, 1>>>>

\* a list that is not in ascending symbol order
OutOfOrder == <<<<9, 2>>, <<5, 2>>, <<1, 1>>>>

CodeLengthLists == {RfcExample, WithHoles, Deep, Single, OutOfOrder}

MaxSymbols == 3

\* the read_next doctest: G, H, F, B (as positions in RfcExample) and its bytes
DocMessage == <<7, 8, 6, 2>>

DocEncoded == <<247, 184>>

\* The canonical code of RFC 1951 3.2.2 for entry i of a list, stated without
\* the algorithm: shorter codes come first, each taking 2^(L - len) of the
\* values of length L, and codes of one length are consecutive in list order.
RECURSIVE ShorterWeight(_, _, _)
ShorterWeight(cl, j, L) ==
    IF j > Len(cl) THEN 0
    ELSE (IF cl[j][2] > 0 /\ cl[j][2] < L THEN 2 ^ (L - cl[j][2]) ELSE 0)
         + ShorterWeight(cl, j + 1, L)

CanonicalCode(cl, i) ==
    ShorterWeight(cl, 1, cl[i][2])
    + Cardinality({j \in 1..(i - 1) : cl[j][2] = cl[i][2]})

\* the bits of a code, most significant first
CodeBits(code, len) == [k \in 1..len |-> (code \div (2 ^ (len - k))) % 2]

RECURSIVE MessageBits(_, _)
MessageBits(cl, msg) ==
    IF msg = <<>> THEN <<>>
    ELSE CodeBits(CanonicalCode(cl, Head(msg)), cl[Head(msg)][2])
         \o MessageBits(cl, Tail(msg))

RECURSIVE MessageLen(_, _)
MessageLen(cl, msg) ==
    IF msg = <<>> THEN 0 ELSE cl[Head(msg)][2] + MessageLen(cl, Tail(msg))

\* bits packed into bytes from the least significant bit up
PackBytes(bits) == [j \in 1..(Len(bits) \div 8) |-> Weigh(bits, 8 * j - 7, 8 * j)]

\* the message followed by just enough padding bits, of value pad, for the
\* last read_next to peek max_code_length bits, filled up to a whole byte
Encoded(cl, msg, pad) ==
    LET bits == MessageBits(cl, msg)
        longest == Largest({cl[i][2] : i \in DOMAIN cl})
        need == Len(bits) - cl[msg[Len(msg)]][2] + longest
        total == 8 * ((need + 7) \div 8)
    IN PackBytes([k \in 1..total |-> IF k <= Len(bits) THEN bits[k] ELSE pad])

HuffCases ==
    UNION {{[cl |-> cl, message |-> m, input |-> Encoded(cl, m, pad)] :
               m \in [1..MaxSymbols -> {i \in DOMAIN cl : cl[i][2] > 0}],
               pad \in {0, 1}} : cl \in CodeLengthLists}
    \cup {[cl |-> RfcExample, message |-> DocMessage, input |-> DocEncoded]}

InitHuff ==
    /\ \E c \in HuffCases :
          /\ alphabet_lengths = c.cl
          /\ message = c.message
          /\ input = c.input
    /\ inner = input
    /\ buf = new(input).buf
    /\ read_bit_pos = new(input).read_bit_pos
    /\ load_byte_pos = new(input).load_byte_pos
    /\ overflow_checks \in BOOLEAN
    /\ eof_mode \in EofModes
    /\ panicked = FALSE
    /\ last = NoCall /\ pos = 0 /\ pure = TRUE /\ failed = FALSE
    /\ decoded = <<>>
    /\ prefix = 0 /\ resolved = NotResolved
    /\ NoBlocks

ReadNext ==
    /\ ~panicked
    /\ Len(decoded) < Len(message)
    /\ LET alphabet == from_code_lengths(alphabet_lengths, overflow_checks)
           res == read_next(alphabet, Stream, eof_mode)
       IN /\ Returned(res)
          /\ decoded' = Append(decoded, [r |-> res.r, symbol |-> res.v])
    /\ UNCHANGED <<callvars, alphabet_lengths, message, fixvars, blockvars, loopvars>>

NextHuff == ReadNext

SpecHuff == InitHuff /\ [][NextHuff]_vars

\* C7: for a list of code lengths that form a prefix code of at most 15 bits
\* and an input holding the canonical codes of a message (code bits most
\* significant first, codes of one length consecutive in list order, which
\* is symbol order for lists in ascending symbol order) followed by enough
\* padding, the read_next calls return the symbols of the message in order
\* and each advances the stream by the length of the code of its symbol.
ReadNextDecodesInOrder ==
    /\ ~panicked
    /\ \A k \in 1..Len(decoded) :
          /\ decoded[k].r = "ok"
          /\ decoded[k].symbol = alphabet_lengths[message[k]][1]
    /\ AbsPos(Stream) = MessageLen(alphabet_lengths, SubSeq(message, 1, Len(decoded)))

ReadNextDecodesInOrderWitness ==
    /\ input = DocEncoded
    /\ Len(decoded) = 4
    /\ [k \in 1..4 |-> decoded[k].symbol] = <<71, 72, 70, 66>>
    /\ AbsPos(Stream) = 13

(***************************************************************************)
(* The fixed literal/length alphabet of RFC 1951 3.2.6, three times        *)
(***************************************************************************)
\* (a..=b).zip(c..=d).map(|(symbol, code)| SymbolEntry { symbol, length, code })
zip_entries(a, b, c, length) ==
    [i \in 1..(b - a + 1) |->
        [symbol |-> a + i - 1, length |-> length, code |-> c + i - 1]]

\* dynamic_huffman.rs: the alphabet with codes written out; its lut is filled
\* with one, two or four entries for each code of 9, 8 or 7 bits
static_alphabet ==
    LET tree == zip_entries(0, 143, 48, 8) \o zip_entries(144, 255, 400, 9)
                \o zip_entries(256, 279, 0, 7) \o zip_entries(280, 287, 192, 8)
    IN [r |-> "ok",
        symbol_entries |-> tree,
        lut |-> [i \in DOMAIN tree |->
                    [start |-> tree[i].code * (2 ^ (9 - tree[i].length)),
                     end |-> tree[i].code * (2 ^ (9 - tree[i].length))
                             + 2 ^ (9 - tree[i].length)]],
        max_lut_code |-> 511,
        max_code_length |-> 9]

\* fixed_huffman.rs: make_fixed_huffman_table()
FIXED_HUFFMAN_TABLE ==
    [n \in 0..511 |->
        IF n < 96 THEN 256 + (n \div 4)
        ELSE IF n < 384 THEN (n \div 2) - 48
        ELSE IF n < 400 THEN (n \div 2) - 192 + 280
        ELSE (n \div 2) - 200 + 144]

fixed_huffman_value(compressed_symbol_9_bits) ==
    FIXED_HUFFMAN_TABLE[compressed_symbol_9_bits]

\* (a..b).zip(iter::repeat(length))
zip_repeat(a, b, length) == [i \in 1..(b - a) |-> <<a + i - 1, length>>]

\* huffman.rs: the alphabets built from code lengths
STATIC_LITERAL_ALPHABET ==
    from_code_lengths(zip_repeat(0, 144, 8) \o zip_repeat(144, 256, 9)
                      \o zip_repeat(256, 280, 7) \o zip_repeat(280, 288, 8), TRUE)

STATIC_DISTANCE_ALPHABET == from_code_lengths(zip_repeat(0, 32, 5), TRUE)

(***************************************************************************)
(* Specification SpecFixed: one 9-bit prefix looked up in the three tables *)
(***************************************************************************)
InitFixed ==
    /\ prefix \in 0..511
    /\ resolved = NotResolved
    /\ input = <<>> /\ inner = input
    /\ buf = new(input).buf
    /\ read_bit_pos = new(input).read_bit_pos
    /\ load_byte_pos = new(input).load_byte_pos
    /\ overflow_checks = TRUE /\ eof_mode = "keep"
    /\ panicked = FALSE
    /\ last = NoCall /\ pos = 0 /\ pure = TRUE /\ failed = FALSE
    /\ alphabet_lengths = <<>> /\ message = <<>> /\ decoded = <<>>
    /\ NoBlocks

\* the symbol of Some(symbol), or the marker of NotResolved for None
SymbolOr(found) == IF found.v = <<>> THEN 0 - 1 ELSE found.v[1]

ResolvePrefix ==
    /\ resolved = NotResolved
    /\ resolved' = [static_alphabet |-> SymbolOr(lookup(static_alphabet, prefix)),
                    FIXED_HUFFMAN_TABLE |-> fixed_huffman_value(prefix),
                    STATIC_LITERAL_ALPHABET |->
                        SymbolOr(lookup(STATIC_LITERAL_ALPHABET, prefix))]
    /\ UNCHANGED <<streamvars, callvars, huffvars, prefix, blockvars, loopvars>>

NextFixed == ResolvePrefix

SpecFixed == InitFixed /\ [][NextFixed]_vars

\* C8: for every 9-bit prefix, static_alphabet and FIXED_HUFFMAN_TABLE hold
\* the symbol that the alphabet built by from_code_lengths from the lengths
\* 8 (0..143), 9 (144..255), 7 (256..279), 8 (280..287) holds.
FixedTablesAgree ==
    resolved # NotResolved =>
        /\ resolved.STATIC_LITERAL_ALPHABET >= 0
        /\ resolved.static_alphabet = resolved.STATIC_LITERAL_ALPHABET
        /\ resolved.FIXED_HUFFMAN_TABLE = resolved.STATIC_LITERAL_ALPHABET

\* the part of C8 about static_alphabet alone
StaticAlphabetAgrees ==
    resolved # NotResolved =>
        /\ resolved.STATIC_LITERAL_ALPHABET >= 0
        /\ resolved.static_alphabet = resolved.STATIC_LITERAL_ALPHABET

(***************************************************************************)
(* deflate: the symbols of a Huffman block                                 *)
(***************************************************************************)
LENGTH_EXTRA_BITS ==
    <<0, 0, 0, 0, 0, 0, 0, 0, 1, 1, 1, 1, 2, 2, 2, 2, 3, 3, 3, 3, 4, 4, 4, 4,
      5, 5, 5, 5, 0>>

BASE_LENGTH ==
    <<3, 4, 5, 6, 7, 8, 9, 10, 11, 13, 15, 17, 19, 23, 27, 31, 35, 43, 51, 59,
      67, 83, 99, 115, 131, 163, 195, 227, 258>>

DISTANCE_EXTRA_BITS ==
    <<0, 0, 0, 0, 1, 1, 2, 2, 3, 3, 4, 4, 5, 5, 6, 6, 7, 7, 8, 8, 9, 9, 10, 10,
      11, 11, 12, 12, 13, 13>>

BASE_DISTANCE ==
    <<1, 2, 3, 4, 5, 7, 9, 13, 17, 25, 33, 49, 65, 97, 129, 193, 257, 385, 513,
      769, 1025, 1537, 2049, 3073, 4097, 6145, 8193, 12289, 16385, 24577>>

read_length_msb_first(s, length_symbol, eof) ==
    Then(read_bits(s, LENGTH_EXTRA_BITS[length_symbol - 257 + 1], "MsbFirst", eof),
         LAMBDA rd : Ret("ok", rd.s,
                         BASE_LENGTH[length_symbol - 257 + 1] + AsU16(rd.v)))

read_length(s, length_symbol, eof) ==
    Then(read_bits(s, LENGTH_EXTRA_BITS[length_symbol - 257 + 1], "LsbFirst", eof),
         LAMBDA rd : Ret("ok", rd.s,
                         BASE_LENGTH[length_symbol - 257 + 1] + AsU16(rd.v)))

\* DISTANCE_EXTRA_BITS[raw_distance] panics for the symbols 30 and 31
read_distance(s, distance_alphabet, eof) ==
    Then(read_next(distance_alphabet, s, eof),
         LAMBDA raw_distance :
            IF raw_distance.v >= Len(DISTANCE_EXTRA_BITS)
            THEN Ret("panic", raw_distance.s, 0)
            ELSE Then(read_bits(raw_distance.s,
                                DISTANCE_EXTRA_BITS[raw_distance.v + 1], "LsbFirst",
                                eof),
                      LAMBDA rd : Ret("ok", rd.s,
                                      BASE_DISTANCE[raw_distance.v + 1]
                                      + AsU16(rd.v))))

read_length_and_distance(s, length_symbol, distance_alphabet, eof) ==
    Then(read_length(s, length_symbol, eof),
         LAMBDA length :
            Then(read_distance(length.s, distance_alphabet, eof),
                 LAMBDA distance :
                    Ret("ok", distance.s,
                        [kind |-> "LengthAndDistance", length |-> length.v,
                         distance |-> distance.v])))

read_deflate_symbol(s, literal_alphabet, distance_alphabet, eof) ==
    Then(read_next(literal_alphabet, s, eof),
         LAMBDA raw_symbol :
            IF raw_symbol.v <= 255
            THEN Ret("ok", raw_symbol.s, [kind |-> "Literal", value |-> raw_symbol.v])
            ELSE IF raw_symbol.v = 256
            THEN Ret("ok", raw_symbol.s, [kind |-> "EndOfData"])
            ELSE IF raw_symbol.v <= 285
            THEN read_length_and_distance(raw_symbol.s, raw_symbol.v,
                                          distance_alphabet, eof)
            ELSE Ret("bail", raw_symbol.s, 0))

\* a block-level result: r as before, s the stream and out the output buffer
Out(r, s, out) == [r |-> r, s |-> s, out |-> out]

\* the ? operator in a function that writes to out_buf
ThenOut(res, out_buf, F(_)) ==
    IF res.r # "ok" THEN Out(res.r, res.s, out_buf) ELSE F(res)

\* for idx in copy_start..copy_end { out_buf.push(out_buf[idx]) }: every byte
\* pushed is the one distance places before it, so the pushed bytes repeat
\* the last distance bytes of out_buf
push_copy_no_overlap(out_buf, length, distance) ==
    LET copy_start == Len(out_buf) - distance
    IN out_buf \o [i \in 1..length |->
                      out_buf[copy_start + Min(i - 1, distance - 1) + 1]]

push_copy(out_buf, length, distance) ==
    LET copy_start == Len(out_buf) - distance
    IN out_buf \o [i \in 1..length |-> out_buf[copy_start + ((i - 1) % distance) + 1]]

RECURSIVE copy_huffman_block(_, _, _, _, _)
copy_huffman_block(s, out_buf, literal_alphabet, distance_alphabet, eof) ==
    ThenOut(read_deflate_symbol(s, literal_alphabet, distance_alphabet, eof), out_buf,
            LAMBDA symbol :
               IF symbol.v.kind = "Literal"
               THEN copy_huffman_block(symbol.s, Append(out_buf, symbol.v.value),
                                       literal_alphabet, distance_alphabet, eof)
               ELSE IF symbol.v.kind = "EndOfData" THEN Out("ok", symbol.s, out_buf)
               ELSE IF symbol.v.distance > Len(out_buf)
               THEN Out("panic", symbol.s, out_buf)
               ELSE copy_huffman_block(symbol.s,
                                       push_copy(out_buf, symbol.v.length,
                                                 symbol.v.distance),
                                       literal_alphabet, distance_alphabet, eof))

copy_static_huffman_block(s, out_buf, eof) ==
    copy_huffman_block(s, out_buf, STATIC_LITERAL_ALPHABET, STATIC_DISTANCE_ALPHABET,
                       eof)

(***************************************************************************)
(* deflate: the alphabets of a dynamic Huffman block                       *)
(***************************************************************************)
CODE_LENGTH_ALPHABET_INDICES ==
    <<16, 17, 18, 0, 8, 7, 9, 6, 10, 5, 11, 4, 12, 3, 13, 2, 14, 1, 15>>

\* ExtractAction::from_bit_stream
ExtractAction_from_bit_stream(s, alphabet, eof) ==
    Then(read_next(alphabet, s, eof),
         LAMBDA sym :
            IF sym.v <= 15 THEN Ret("ok", sym.s, [kind |-> "CodeLength", n |-> sym.v])
            ELSE IF sym.v > 18 THEN Ret("bail", sym.s, 0)
            ELSE Then(read_bits(sym.s,
                                IF sym.v = 16 THEN 2 ELSE IF sym.v = 17 THEN 3 ELSE 7,
                                "LsbFirst", eof),
                      LAMBDA rd :
                         Ret("ok", rd.s,
                             IF sym.v = 16
                             THEN [kind |-> "CopyLastLength",
                                   n |-> (AsU16(rd.v) + 3) % 256]
                             ELSE IF sym.v = 17
                             THEN [kind |-> "RepeatZero", n |-> (AsU16(rd.v) + 3) % 256]
                             ELSE [kind |-> "RepeatZero",
                                   n |-> (AsU16(rd.v) + 11) % 256])))

\* v is <<literal_code_lengths, cl_symbol>> after the call
copy_last_length(times, literal_code_lengths, cl_symbol) ==
    IF literal_code_lengths = <<>> THEN [r |-> "bail", v |-> <<>>]
    ELSE LET length == literal_code_lengths[Len(literal_code_lengths)][2]
         IN [r |-> "ok",
             v |-> <<literal_code_lengths
                        \o [i \in 1..times |-> <<cl_symbol + i - 1, length>>],
                     cl_symbol + times>>]

\* one entry of length 0 stands for the whole run
repeat_zero(times, literal_code_lengths, cl_symbol) ==
    [r |-> "ok",
     v |-> <<Append(literal_code_lengths, <<cl_symbol, 0>>), cl_symbol + times>>]

\* while (cl_symbol as usize) < alphabet_size { ... }
RECURSIVE extract_loop(_, _, _, _, _, _)
extract_loop(s, alphabet_size, cl_alphabet, literal_code_lengths, cl_symbol, eof) ==
    IF cl_symbol >= alphabet_size THEN Ret("ok", s, literal_code_lengths)
    ELSE Then(ExtractAction_from_bit_stream(s, cl_alphabet, eof),
              LAMBDA act :
                 LET upd == IF act.v.kind = "CopyLastLength"
                            THEN copy_last_length(act.v.n, literal_code_lengths,
                                                  cl_symbol)
                            ELSE repeat_zero(act.v.n, literal_code_lengths, cl_symbol)
                 IN IF act.v.kind = "CodeLength"
                    THEN extract_loop(act.s, alphabet_size, cl_alphabet,
                                      Append(literal_code_lengths,
                                             <<cl_symbol, act.v.n>>),
                                      cl_symbol + 1, eof)
                    ELSE IF upd.r # "ok" THEN Ret(upd.r, act.s, <<>>)
                    ELSE extract_loop(act.s, alphabet_size, cl_alphabet, upd.v[1],
                                      upd.v[2], eof))

\* the alphabet built while the stream is s; from_code_lengths may panic
Built(s, alphabet) ==
    IF alphabet.r # "ok" THEN Ret("panic", s, 0) ELSE Ret("ok", s, alphabet)

extract_alphabet(s, alphabet_size, cl_alphabet, eof, oc) ==
    Then(extract_loop(s, alphabet_size, cl_alphabet, <<>>, 0, eof),
         LAMBDA lens : Built(lens.s, from_code_lengths(lens.v, oc)))

\* for i in 0..hclen { code_lengths[CODE_LENGTH_ALPHABET_INDICES[i]] = (.., read_bits(3)) }
RECURSIVE read_code_lengths(_, _, _, _, _)
read_code_lengths(s, i, hclen, code_lengths, eof) ==
    IF i >= hclen THEN Ret("ok", s, code_lengths)
    ELSE Then(read_bits(s, 3, "LsbFirst", eof),
              LAMBDA rd :
                 read_code_lengths(
                     rd.s, i + 1, hclen,
                     [code_lengths EXCEPT ![CODE_LENGTH_ALPHABET_INDICES[i + 1] + 1] =
                         <<CODE_LENGTH_ALPHABET_INDICES[i + 1], AsU8(rd.v)>>],
                     eof))

copy_dynamic_huffman_block(s, out_buf, eof, oc) ==
    ThenOut(read_bits(s, 5, "LsbFirst", eof), out_buf, LAMBDA hlit :
    IF AsU16(hlit.v) + 257 > 286 THEN Out("panic", hlit.s, out_buf)
    ELSE
    ThenOut(read_bits(hlit.s, 5, "LsbFirst", eof), out_buf, LAMBDA hdist :
    ThenOut(read_bits(hdist.s, 4, "LsbFirst", eof), out_buf, LAMBDA hclen :
    ThenOut(read_code_lengths(hclen.s, 0, AsU16(hclen.v) + 4,
                              [i \in 1..19 |-> <<0, 0>>], eof),
            out_buf, LAMBDA code_lengths :
    ThenOut(Built(code_lengths.s, from_code_lengths(code_lengths.v, oc)),
            out_buf, LAMBDA cl_alphabet :
    ThenOut(extract_alphabet(cl_alphabet.s, AsU16(hlit.v) + 257, cl_alphabet.v, eof,
                             oc),
            out_buf, LAMBDA literal_alphabet :
    ThenOut(extract_alphabet(literal_alphabet.s, AsU16(hdist.v) + 1, cl_alphabet.v,
                             eof, oc),
            out_buf, LAMBDA distance_alphabet :
    copy_huffman_block(distance_alphabet.s, out_buf, literal_alphabet.v,
                       distance_alphabet.v, eof))))))))

(***************************************************************************)
(* deflate: blocks                                                         *)
(***************************************************************************)
NoHeader == [is_final |-> FALSE, compression_type |-> "None"]

\* impl From<u8> for BlockHeader
BlockHeader_from_high_bit(b) ==
    LET btype == first_n_bits(b, 2)
    IN [is_final |-> (BitAnd(b \div 4, 1) = 1),
        compression_type |->
            IF btype = 0 THEN "NoCompression"
            ELSE IF btype = 1 THEN "FixedHuffman"
            ELSE IF btype = 2 THEN "DynamicHuffman"
            ELSE "Reserved"]

BlockHeader_from(b) ==
    LET btype == first_n_bits(b \div 2, 2)
    IN [is_final |-> (BitAnd(b, 1) = 1),
        compression_type |->
            IF btype = 0 THEN "NoCompression"
            ELSE IF btype = 1 THEN "FixedHuffman"
            ELSE IF btype = 2 THEN "DynamicHuffman"
            ELSE "Reserved"]

read_block_header(s, eof) ==
    Then(read_bits(s, 3, "LsbFirst", eof),
         LAMBDA header_bits :
            Ret("ok", header_bits.s, BlockHeader_from(AsU8(header_bits.v))))

\* Read::take(len) on the byte source: at most len of the bytes it still has
take(r, len) == SubSeq(r, 1, Min(len, Len(r)))

\* copy_bytes reads until read() returns 0: everything r gives goes to w
copy_bytes(r, w) == w \o r

\* bits.get_mut().take(len) copied to out_bytes; source is the reset stream
copy_taken(source, len, out_bytes) ==
    Out("ok",
        [source EXCEPT !.inner = SubSeq(source.inner, Len(take(source.inner, len)) + 1,
                                        Len(source.inner))],
        copy_bytes(take(source.inner, len), out_bytes))

copy_uncompressed_block(s, out_bytes, eof) ==
    ThenOut(read_u16_le(skip_to_start_of_byte(s).s, eof), out_bytes, LAMBDA len :
    ThenOut(read_u16_le(len.s, eof), out_bytes, LAMBDA nlen :
    IF BitAnd(AsU16(len.v), AsU16(nlen.v)) # 0 THEN Out("bail", nlen.s, out_bytes)
    ELSE copy_taken(get_mut(nlen.s), AsU16(len.v), out_bytes)))

(***************************************************************************)
(* Specification SpecDeflate: decompress_blocks on inputs put together     *)
(* from blocks of every type                                               *)
(***************************************************************************)
\* the n low bits of v, least significant first
LsbBits(v, n) == [k \in 1..n |-> (v \div (2 ^ (k - 1))) % 2]

RECURSIVE Flatten(_)
Flatten(seqs) == IF seqs = <<>> THEN <<>> ELSE Head(seqs) \o Flatten(Tail(seqs))

\* RFC 1951 3.2.6: the code of a literal in a fixed Huffman block
FixedLiteralBits(lit) ==
    IF lit < 144 THEN CodeBits(48 + lit, 8) ELSE CodeBits(400 + lit - 144, 9)

\* The head of a dynamic Huffman block whose literal alphabet has the two
\* one-bit codes 0 for the literal 97 and 1 for end-of-block: HLIT = 257,
\* HDIST = 1, HCLEN = 18, code-length codes 0 for length 1 and 1 for the
\* zero run 18, then 97 zeros, a 1, 158 zeros, a 1, and one distance length.
DynamicHead ==
    LsbBits(0, 5) \o LsbBits(0, 5) \o LsbBits(14, 4)
    \o Flatten([i \in 1..18 |->
                   LsbBits(IF CODE_LENGTH_ALPHABET_INDICES[i] \in {1, 18}
                           THEN 1 ELSE 0, 3)])
    \o <<1>> \o LsbBits(97 - 11, 7) \o <<0>>
    \o <<1>> \o LsbBits(138 - 11, 7) \o <<1>> \o LsbBits(20 - 11, 7) \o <<0>>
    \o <<0>>

\* The head of a dynamic Huffman block whose literal alphabet has codes of
\* every length up to 15: end-of-block has the one-bit code 0, the literals
\* 255, 254, ... 243 the codes 10, 110, ... of 2 to 14 bits, and 241 and 242
\* the two codes of 15 bits.  HLIT = 257, HDIST = 1, HCLEN = 19; the code
\* lengths 1..15 and the zero run 18 all have four-bit codes, in this order.
DeepHead ==
    LsbBits(0, 5) \o LsbBits(0, 5) \o LsbBits(15, 4)
    \o Flatten([i \in 1..19 |->
                   LsbBits(IF CODE_LENGTH_ALPHABET_INDICES[i] \in (1..15) \cup {18}
                           THEN 4 ELSE 0, 3)])
    \o CodeBits(15, 4) \o LsbBits(138 - 11, 7)
    \o CodeBits(15, 4) \o LsbBits(103 - 11, 7)
    \o Flatten([k \in 1..15 |-> CodeBits((IF k = 1 THEN 15 ELSE 17 - k) - 1, 4)])
    \o CodeBits(0, 4)
    \o CodeBits(0, 4)

\* A code for the code-length alphabet: the symbols 0..12 have the four-bit
\* codes 0000..1100 and 13..18 the five-bit codes 11010..11111
ClCodeLength(sym) == IF sym <= 12 THEN 4 ELSE 5

ClCodeBits(sym) == IF sym <= 12 THEN CodeBits(sym, 4) ELSE CodeBits(26 + sym - 13, 5)

\* a code-length symbol with the value of its extra bits
ClSymbolBits(e) ==
    ClCodeBits(e[1])
    \o LsbBits(e[2], IF e[1] = 16 THEN 2 ELSE IF e[1] = 17 THEN 3
                     ELSE IF e[1] = 18 THEN 7 ELSE 0)

\* the head of a dynamic Huffman block with HCLEN = 19 that sends the code-
\* length symbols h.lit for the literal/length alphabet and h.dist for the
\* distance alphabet
GeneralHead(h) ==
    LsbBits(h.hlit - 257, 5) \o LsbBits(h.hdist - 1, 5) \o LsbBits(15, 4)
    \o Flatten([i \in 1..19 |->
                   LsbBits(ClCodeLength(CODE_LENGTH_ALPHABET_INDICES[i]), 3)])
    \o Flatten([i \in 1..Len(h.lit) |-> ClSymbolBits(h.lit[i])])
    \o Flatten([i \in 1..Len(h.dist) |-> ClSymbolBits(h.dist[i])])

\* the literals and the end-of-block code of a dynamic Huffman block; a block
\* with a head of its own gives the bits of its symbols
DynamicBits(d) ==
    IF "head" \in DOMAIN d THEN GeneralHead(d.head) \o d.symbols
    ELSE IF d.max_code_length = 15
    THEN DeepHead \o Flatten([i \in 1..Len(d.data) |-> <<1, 0>>]) \o <<0>>
    ELSE DynamicHead \o [i \in 1..Len(d.data) |-> 0] \o <<1>>

TypeBits(kind) ==
    IF kind = "NoCompression" THEN 0
    ELSE IF kind = "FixedHuffman" THEN 1
    ELSE IF kind = "DynamicHuffman" THEN 2
    ELSE 3

\* the bits of block d when it starts at bit position at of the input
BlockBits(d, at) ==
    <<IF d.final THEN 1 ELSE 0>> \o LsbBits(TypeBits(d.kind), 2)
    \o (IF d.kind = "NoCompression"
        THEN [k \in 1..ToBoundary(at + 3) |-> 1]
             \o LsbBits(Len(d.data), 16) \o LsbBits(d.nlen, 16)
             \o Flatten([i \in 1..Len(d.data) |-> LsbBits(d.data[i], 8)])
        ELSE IF d.kind = "FixedHuffman"
        THEN Flatten([i \in 1..Len(d.data) |-> FixedLiteralBits(d.data[i])])
             \o CodeBits(0, 7)
        ELSE IF d.kind = "DynamicHuffman"
        THEN DynamicBits(d)
        ELSE <<>>)

RECURSIVE Assemble(_, _)
Assemble(ds, n) ==
    IF n = 0 THEN <<>>
    ELSE LET before == Assemble(ds, n - 1)
         IN before \o BlockBits(ds[n], Len(before))

\* the blocks written one after the other, zero bits up to a whole byte, and
\* the bytes of tail
InputOf(ds, tail) ==
    LET bits == Assemble(ds, Len(ds))
    IN PackBytes(bits \o [k \in 1..ToBoundary(Len(bits)) |-> 0]) \o tail

BlockBodies ==
    {[kind |-> "NoCompression", data |-> <<>>, nlen |-> 65535, max_code_length |-> 0],
     [kind |-> "NoCompression", data |-> <<171, 205>>, nlen |-> 65533,
      max_code_length |-> 0],
     [kind |-> "NoCompression", data |-> <<7>>, nlen |-> 0, max_code_length |-> 0],
     [kind |-> "NoCompression", data |-> <<7>>, nlen |-> 65535, max_code_length |-> 0],
     [kind |-> "FixedHuffman", data |-> <<>>, nlen |-> 0, max_code_length |-> 9],
     [kind |-> "FixedHuffman", data |-> <<144, 97>>, nlen |-> 0, max_code_length |-> 9],
     [kind |-> "FixedHuffman", data |-> <<200, 201, 202, 203, 204>>, nlen |-> 0,
      max_code_length |-> 9],
     [kind |-> "DynamicHuffman", data |-> <<97>>, nlen |-> 0, max_code_length |-> 1],
     [kind |-> "DynamicHuffman", data |-> <<255>>, nlen |-> 0, max_code_length |-> 15],
     [kind |-> "Reserved", data |-> <<>>, nlen |-> 0, max_code_length |-> 0]}

BlockChoices ==
    {[kind |-> b.kind, data |-> b.data, nlen |-> b.nlen,
      max_code_length |-> b.max_code_length, final |-> f] :
        b \in BlockBodies, f \in BOOLEAN}

MaxBlocks == 2

Tails == {<<>>, <<0, 0>>}

InitDeflate ==
    /\ \E n \in 1..MaxBlocks :
          \E ds \in [1..n -> BlockChoices], tail \in Tails :
              /\ blocks = [k \in 1..n |->
                             [kind |-> ds[k].kind, data |-> ds[k].data,
                              nlen |-> ds[k].nlen, final |-> ds[k].final,
                              max_code_length |-> ds[k].max_code_length,
                              start |-> Len(Assemble(ds, k - 1)),
                              end |-> Len(Assemble(ds, k))]]
              /\ input = InputOf(ds, tail)
    /\ inner = input
    /\ buf = new(input).buf
    /\ read_bit_pos = new(input).read_bit_pos
    /\ load_byte_pos = new(input).load_byte_pos
    /\ overflow_checks \in BOOLEAN
    /\ eof_mode \in EofModes
    /\ panicked = FALSE
    /\ last = NoCall /\ pos = 0 /\ pure = TRUE /\ failed = FALSE
    /\ alphabet_lengths = <<>> /\ message = <<>> /\ decoded = <<>>
    /\ prefix = 0 /\ resolved = NotResolved
    /\ output = <<>> /\ pc = "header" /\ returned = "none"
    /\ block_header = NoHeader /\ n_blocks = 0 /\ header_at = 0
    /\ locals = NoLocals

\* let block_header = read_block_header(&mut bits)?;
ReadBlockHeader ==
    /\ pc = "header"
    /\ LET res == read_block_header(Stream, eof_mode)
       IN /\ Returned(res)
          /\ block_header' = IF res.r = "ok" THEN res.v ELSE NoHeader
          /\ header_at' = AbsPos(Stream)
          /\ pc' = IF res.r = "ok" THEN "block" ELSE "returned"
          /\ returned' = IF res.r = "ok" THEN "none" ELSE res.r
    /\ UNCHANGED <<callvars, huffvars, fixvars, blocks, output, n_blocks, loopvars>>

\* a block function has returned res; decompress_blocks then returns the
\* error, breaks out of the loop after a final block, or loops
BlockCopied(res) ==
    /\ Returned(res)
    /\ output' = res.out
    /\ n_blocks' = IF res.r = "ok" THEN n_blocks + 1 ELSE n_blocks
    /\ pc' = IF res.r = "ok" /\ ~block_header.is_final THEN "header" ELSE "returned"
    /\ returned' = IF res.r # "ok" THEN res.r
                   ELSE IF block_header.is_final THEN "ok" ELSE "none"
    /\ UNCHANGED <<callvars, huffvars, fixvars, blocks, block_header, header_at,
                   loopvars>>

CopyUncompressedBlock ==
    /\ pc = "block"
    /\ block_header.compression_type = "NoCompression"
    /\ BlockCopied(copy_uncompressed_block(Stream, output, eof_mode))

CopyStaticHuffmanBlock ==
    /\ pc = "block"
    /\ block_header.compression_type = "FixedHuffman"
    /\ BlockCopied(copy_static_huffman_block(Stream, output, eof_mode))

CopyDynamicHuffmanBlock ==
    /\ pc = "block"
    /\ block_header.compression_type = "DynamicHuffman"
    /\ BlockCopied(copy_dynamic_huffman_block(Stream, output, eof_mode,
                                              overflow_checks))

\* Reserved => bail!("Invalid compression type, Reserved")
ReservedBlock ==
    /\ pc = "block"
    /\ block_header.compression_type = "Reserved"
    /\ BlockCopied(Out("bail", Stream, output))

NextDeflate ==
    \/ ReadBlockHeader
    \/ CopyUncompressedBlock
    \/ CopyStaticHuffmanBlock
    \/ CopyDynamicHuffmanBlock
    \/ ReservedBlock

SpecDeflate == InitDeflate /\ [][NextDeflate]_vars

(***************************************************************************)
(* Properties of decompress_blocks                                         *)
(***************************************************************************)
\* the bit position right after the first k blocks of the input
Done(k) == IF k = 0 THEN 0 ELSE blocks[k].end

\* the header the input carries for block k
HeaderOf(k) == [is_final |-> blocks[k].final, compression_type |-> blocks[k].kind]

\* C9: decompress_blocks takes the blocks in input order.  While it has
\* completed no more blocks than the input was put together from: none of
\* the blocks before the last completed one was final; before a header is
\* read the stream stands at the bit right after the last completed block,
\* which was not final; a header that has been read was read from that bit
\* and is the three bits there, bit 0 the final flag and bits 1-2 the type;
\* Ok is returned only when the last completed block was final, with no
\* header read after it and the stream standing at its end; and when the
\* last completed block was not final, a further header has been read from
\* the bit after it and the result is not Ok.
BlocksInOrder ==
    n_blocks <= Len(blocks) =>
        /\ \A k \in 1..(n_blocks - 1) : ~blocks[k].final
        /\ pc = "header" =>
              /\ returned = "none"
              /\ AbsPos(Stream) = Done(n_blocks)
              /\ n_blocks >= 1 => ~blocks[n_blocks].final
        /\ pc = "block" =>
              /\ returned = "none"
              /\ header_at = Done(n_blocks)
              /\ AbsPos(Stream) = header_at + 3
              /\ n_blocks < Len(blocks) => block_header = HeaderOf(n_blocks + 1)
        /\ pc = "returned" /\ n_blocks >= 1 =>
              IF blocks[n_blocks].final
              THEN /\ returned = "ok"
                   /\ header_at = blocks[n_blocks].start
                   /\ AbsPos(Stream) = blocks[n_blocks].end
              ELSE /\ returned # "ok"
                   /\ header_at = Done(n_blocks)
        /\ returned = "ok" =>
              /\ pc = "returned"
              /\ n_blocks >= 1
              /\ blocks[n_blocks].final
              /\ block_header.is_final

\* a non-final Huffman block, then a final block whose header does not start
\* a byte, after which Ok was returned although more input follows
BlocksInOrderWitness ==
    /\ returned = "ok"
    /\ n_blocks = 2
    /\ blocks[1].kind = "FixedHuffman"
    /\ blocks[2].kind = "DynamicHuffman"
    /\ header_at % 8 # 0
    /\ AbsPos(Stream) < 8 * Len(input) - 16

\* the byte at which the LEN field of the block with the header at header_at
\* starts, counted from 0
LenAt == (header_at + 3 + 7) \div 8

U16At(b) == input[b + 1] + 256 * input[b + 2]

\* the LEN field, the NLEN field and LEN bytes of data are in the input
StoredBlockPresent ==
    /\ LenAt + 4 <= Len(input)
    /\ LenAt + 4 + U16At(LenAt) <= Len(input)

\* C10: a step of copy_uncompressed_block on a block whose LEN, NLEN and LEN
\* bytes of data are in the input, whatever was decoded before it: when
\* LEN & NLEN is not 0 the step fails and the output is as it was; otherwise
\* the step does not fail, the output grows by exactly the LEN bytes after
\* NLEN, and the stream stands at the byte right after them with nothing
\* buffered.  The header read from a stream left like that is the low three
\* bits of that byte.
StoredBlockCopied ==
    [][/\ (/\ pc = "block"
            /\ block_header.compression_type = "NoCompression"
            /\ StoredBlockPresent)
          => IF BitAnd(U16At(LenAt), U16At(LenAt + 2)) # 0
             THEN /\ returned' = "bail"
                  /\ output' = output
             ELSE /\ returned' = IF block_header.is_final THEN "ok" ELSE "none"
                  /\ output' = output \o SubSeq(input, LenAt + 5,
                                                 LenAt + 4 + U16At(LenAt))
                  /\ Len(inner') = Len(input) - (LenAt + 4 + U16At(LenAt))
                  /\ load_byte_pos' = 0
                  /\ read_bit_pos' = 0
       /\ (/\ pc = "header"
            /\ n_blocks >= 1
            /\ load_byte_pos = 0
            /\ inner # <<>>)
          => /\ pc' = "block"
             /\ header_at' = 8 * (Len(input) - Len(inner))
             /\ block_header' = BlockHeader_from(Head(inner) % 8)]_vars

\* a stored block after a Huffman block with 15-bit codes, whose last peek
\* had buffered the first byte of LEN: its two bytes are in the output and
\* the next header is about to be read
StoredBlockCopiedWitness ==
    /\ pc = "header"
    /\ n_blocks = 2
    /\ blocks[1].kind = "DynamicHuffman"
    /\ blocks[1].max_code_length = 15
    /\ blocks[2].kind = "NoCompression"
    /\ output = <<255, 171, 205>>
    /\ load_byte_pos = 0
    /\ inner # <<>>

(***************************************************************************)
(* Specification SpecTruncated: decompress_blocks on inputs that end early *)
(***************************************************************************)
MaxCutBlocks == 2

MaxCut == 4

\* the blocks of InitDeflate with the last cut bytes of the input missing
InitTruncated ==
    /\ \E n \in 1..MaxCutBlocks :
          \E ds \in [1..n -> BlockChoices], cut \in 1..MaxCut :
              /\ cut <= Len(InputOf(ds, <<>>))
              /\ blocks = [k \in 1..n |->
                             [kind |-> ds[k].kind, data |-> ds[k].data,
                              nlen |-> ds[k].nlen, final |-> ds[k].final,
                              max_code_length |-> ds[k].max_code_length,
                              start |-> Len(Assemble(ds, k - 1)),
                              end |-> Len(Assemble(ds, k))]]
              /\ input = SubSeq(InputOf(ds, <<>>), 1, Len(InputOf(ds, <<>>)) - cut)
    /\ inner = input
    /\ buf = new(input).buf
    /\ read_bit_pos = new(input).read_bit_pos
    /\ load_byte_pos = new(input).load_byte_pos
    /\ overflow_checks \in BOOLEAN
    /\ eof_mode \in EofModes
    /\ panicked = FALSE
    /\ last = NoCall /\ pos = 0 /\ pure = TRUE /\ failed = FALSE
    /\ alphabet_lengths = <<>> /\ message = <<>> /\ decoded = <<>>
    /\ prefix = 0 /\ resolved = NotResolved
    /\ output = <<>> /\ pc = "header" /\ returned = "none"
    /\ block_header = NoHeader /\ n_blocks = 0 /\ header_at = 0
    /\ locals = NoLocals

SpecTruncated == InitTruncated /\ [][NextDeflate]_vars

\* the bit up to which block k must be in the input for it to be decoded: a
\* stored block whose LEN & NLEN is not 0 is refused after its NLEN field
Required(k) ==
    IF blocks[k].kind = "NoCompression"
       /\ BitAnd(Len(blocks[k].data), blocks[k].nlen) # 0
    THEN blocks[k].end - 8 * Len(blocks[k].data)
    ELSE blocks[k].end

\* C11: when the input ends before the data a block requires, the result of
\* decompress_blocks is an I/O error.  Ok is returned only when every
\* completed block is in the input up to its last bit; and when the block
\* after the last completed one is cut short (its header, its LEN or NLEN
\* field, its LEN bytes, or its end-of-block code are missing), or there is
\* no block after a non-final one, the result is the I/O error.
TruncatedInputFails ==
    /\ (returned = "ok" /\ n_blocks <= Len(blocks))
          => blocks[n_blocks].end <= 8 * Len(input)
    /\ (/\ pc = "returned"
        /\ n_blocks < Len(blocks)
        /\ \A k \in 1..n_blocks : ~blocks[k].final
        /\ Required(n_blocks + 1) > 8 * Len(input))
          => returned = "err"
    /\ (/\ pc = "returned"
        /\ n_blocks = Len(blocks)
        /\ ~blocks[n_blocks].final
        /\ blocks[n_blocks].end <= 8 * Len(input)
        /\ blocks[n_blocks].end + 3 > 8 * Len(input))
          => returned = "err"

(***************************************************************************)
(* Specification SpecSymbols: the symbol loop of copy_huffman_block with   *)
(* the fixed alphabets, one iteration a step                               *)
(***************************************************************************)
copy_huffman_iteration_zero_filled(s, out_buf, literal_alphabet, distance_alphabet, eof) ==
    ThenOut(read_deflate_symbol(s, literal_alphabet, distance_alphabet, eof), out_buf,
            LAMBDA symbol :
               IF symbol.v.kind = "Literal"
               THEN Out("ok", symbol.s, Append(out_buf, symbol.v.value))
               ELSE IF symbol.v.kind = "EndOfData" THEN Out("break", symbol.s, out_buf)
               ELSE IF symbol.v.distance > Len(out_buf)
               THEN Out("ok", symbol.s, out_buf \o [i \in 1..symbol.v.length |-> 0])
               ELSE Out("ok", symbol.s,
                        push_copy(out_buf, symbol.v.length, symbol.v.distance)))

\* one iteration of the loop of copy_huffman_block; "break" ends the loop
copy_huffman_iteration(s, out_buf, literal_alphabet, distance_alphabet, eof) ==
    ThenOut(read_deflate_symbol(s, literal_alphabet, distance_alphabet, eof), out_buf,
            LAMBDA symbol :
               IF symbol.v.kind = "Literal"
               THEN Out("ok", symbol.s, Append(out_buf, symbol.v.value))
               ELSE IF symbol.v.kind = "EndOfData" THEN Out("break", symbol.s, out_buf)
               ELSE IF symbol.v.distance > Len(out_buf)
               THEN Out("panic", symbol.s, out_buf)
               ELSE Out("ok", symbol.s,
                        push_copy(out_buf, symbol.v.length, symbol.v.distance)))

\* RFC 1951 3.2.6: the code of a literal/length symbol in the fixed alphabet
FixedSymbolBits(v) ==
    IF v < 144 THEN CodeBits(48 + v, 8)
    ELSE IF v < 256 THEN CodeBits(400 + v - 144, 9)
    ELSE IF v < 280 THEN CodeBits(v - 256, 7)
    ELSE CodeBits(192 + v - 280, 8)

MaxExtra == 1

\* values of a field of k extra bits: the small ones, the one with only the
\* highest bit set and the largest
ExtraValues(k) ==
    {e \in 0..(2 ^ k - 1) : e <= MaxExtra \/ e = 2 ^ k - 1 \/ 2 * e = 2 ^ k}

ExtraBitsOfLength(sym) == IF sym \in 257..285 THEN LENGTH_EXTRA_BITS[sym - 257 + 1] ELSE 0

ExtraBitsOfDistance(d) == IF d \in 0..29 THEN DISTANCE_EXTRA_BITS[d + 1] ELSE 0

Plain(sym) == [sym |-> sym, extra |-> 0, dsym |-> 0, dextra |-> 0]

Pair(sym, extra, dsym, dextra) ==
    [sym |-> sym, extra |-> extra, dsym |-> dsym, dextra |-> dextra]

\* every length symbol, and every distance symbol the fixed distance
\* alphabet produces, each with values of its extra bits
LengthFields ==
    UNION {{<<v, e>> : e \in ExtraValues(ExtraBitsOfLength(v))} : v \in 257..285}

DistanceFields ==
    UNION {{<<d, f>> : f \in ExtraValues(ExtraBitsOfDistance(d))} : d \in 0..31}

FewLengths == {<<257, 0>>, <<266, 1>>, <<284, 16>>, <<284, 31>>, <<285, 0>>}

FewDistances == {<<0, 0>>, <<5, 1>>, <<29, 4096>>, <<29, 8191>>}

Pairs ==
    {Pair(p[1][1], p[1][2], p[2][1], p[2][2]) :
        p \in (LengthFields \X FewDistances) \cup (FewLengths \X DistanceFields)}

\* the literals X and Y, end-of-block, and the back-references (5, 2),
\* (3, 1), (4, 4) and (3, 3)
ShortSteps ==
    {Plain(88), Plain(89), Plain(256), Pair(259, 0, 1, 0), Pair(257, 0, 0, 0),
     Pair(258, 0, 3, 0), Pair(257, 0, 2, 0)}

MaxSteps == 3

Messages ==
    {<<m>> : m \in Pairs \cup {Plain(286), Plain(287)}}
    \cup UNION {[1..n -> ShortSteps] : n \in 1..MaxSteps}

\* out_buf when copy_huffman_block is called: empty, or what earlier blocks
\* have written
OutBufs == {<<>>, <<88, 89>>}

\* the bits of one symbol of a fixed Huffman block
SymbolBits(m) ==
    FixedSymbolBits(m.sym)
    \o (IF m.sym \in 257..285
        THEN LsbBits(m.extra, ExtraBitsOfLength(m.sym))
             \o CodeBits(m.dsym, 5)
             \o LsbBits(m.dextra, ExtraBitsOfDistance(m.dsym))
        ELSE <<>>)

\* the bits of the first n symbols of msg
MessageSymbolBits(msg, n) == Flatten([i \in 1..n |-> SymbolBits(msg[i])])

\* the symbols, zero bits up to a whole byte, and two bytes of zeros
SymbolInput(msg) ==
    PackBytes(MessageSymbolBits(msg, Len(msg))
              \o [k \in 1..ToBoundary(Len(MessageSymbolBits(msg, Len(msg)))) |-> 0])
    \o <<0, 0>>

InitSymbols ==
    /\ message \in Messages
    /\ output \in OutBufs
    /\ input = SymbolInput(message)
    /\ inner = input
    /\ buf = new(input).buf
    /\ read_bit_pos = new(input).read_bit_pos
    /\ load_byte_pos = new(input).load_byte_pos
    /\ overflow_checks \in BOOLEAN
    /\ eof_mode \in EofModes
    /\ panicked = FALSE
    /\ last = NoCall /\ pos = 0 /\ pure = TRUE /\ failed = FALSE
    /\ alphabet_lengths = <<>> /\ decoded = <<>>
    /\ prefix = 0 /\ resolved = NotResolved
    /\ blocks = <<>> /\ pc = "symbol" /\ returned = "none"
    /\ block_header = NoHeader /\ n_blocks = 0 /\ header_at = 0
    /\ locals = NoLocals

\* read_deflate_symbol has returned symbol and the iteration res
SymbolDecoded(symbol, res) ==
    /\ Returned(res)
    /\ decoded' = Append(decoded, [r |-> symbol.r, v |-> symbol.v,
                                   end |-> AbsPos(symbol.s)])
    /\ output' = res.out
    /\ pc' = IF res.r = "ok" THEN "symbol" ELSE "returned"
    /\ returned' = IF res.r = "ok" THEN "none"
                   ELSE IF res.r = "break" THEN "ok" ELSE res.r
    /\ UNCHANGED <<callvars, alphabet_lengths, message, fixvars, blocks, block_header,
                   n_blocks, header_at, loopvars>>

DecodeSymbol ==
    /\ pc = "symbol"
    /\ SymbolDecoded(read_deflate_symbol(Stream, STATIC_LITERAL_ALPHABET,
                                         STATIC_DISTANCE_ALPHABET, eof_mode),
                     copy_huffman_iteration(Stream, output, STATIC_LITERAL_ALPHABET,
                                            STATIC_DISTANCE_ALPHABET, eof_mode))

NextSymbols == DecodeSymbol

SpecSymbols == InitSymbols /\ [][NextSymbols]_vars

InvalidSymbolsAreErrors ==
    \A k \in 1..Min(Len(decoded), Len(message)) :
        (\/ message[k].sym \in {286, 287}
         \/ message[k].sym \in 257..285 /\ message[k].dsym \in {30, 31})
            => decoded[k].r \in {"bail", "err"}

\* the symbol the step has decoded
Latest == decoded'[Len(decoded')]

\* the step has decoded a length and a distance
BackReference ==
    /\ Len(decoded') = Len(decoded) + 1
    /\ Latest.r = "ok"
    /\ Latest.v.kind = "LengthAndDistance"

\* C14: a step that decodes (length, distance) with distance at most the
\* length L of the output makes the output `length` bytes longer, leaves
\* its first L bytes as they were, and each new byte out[L + i] equals
\* out[L - distance + i] of the output after the step, so a copy with
\* distance < length repeats the bytes it has written; (5, 2) on an output
\* that ends in XY appends XYXYX.
BackReferenceExpanded ==
    [][(BackReference /\ Latest.v.distance <= Len(output))
          => /\ Len(output') = Len(output) + Latest.v.length
             /\ SubSeq(output', 1, Len(output)) = output
             /\ \A i \in 0..(Latest.v.length - 1) :
                   output'[Len(output) + i + 1]
                      = output'[Len(output) - Latest.v.distance + i + 1]
             /\ (/\ Latest.v.length = 5
                 /\ Latest.v.distance = 2
                 /\ SubSeq(output, Len(output) - 1, Len(output)) = <<88, 89>>)
                   => output' = output \o <<88, 89, 88, 89, 88>>]_vars

\* (5, 2) decoded on the output XY
BackReferenceExpandedWitness ==
    /\ Len(decoded) = 1
    /\ decoded[1].r = "ok"
    /\ decoded[1].v.kind = "LengthAndDistance"
    /\ decoded[1].v.length = 5
    /\ decoded[1].v.distance = 2
    /\ output = <<88, 89, 88, 89, 88, 89, 88>>

\* C15: a step that decodes (length, distance) with distance greater than
\* the length of the output fails there, by the assertion, and leaves the
\* output as it was before the symbol; and a step that appends to the output
\* by a back-reference has a distance within the output.
NoReadBeforeOutput ==
    [][/\ (BackReference /\ Latest.v.distance > Len(output))
             => /\ returned' = "panic"
                /\ pc' = "returned"
                /\ output' = output
       /\ (BackReference /\ output' # output)
             => Latest.v.distance <= Len(output)]_vars

\* the literal X, then (3, 3): the distance reaches before the start
NoReadBeforeOutputWitness ==
    /\ Len(decoded) = 2
    /\ decoded[2].r = "ok"
    /\ decoded[2].v.kind = "LengthAndDistance"
    /\ decoded[2].v.distance = 3
    /\ output = <<88>>
    /\ returned = "panic"

(***************************************************************************)
(* Specification SpecLoops: decompress_blocks with every iteration of the  *)
(* block loop, of extract_alphabet and of copy_huffman_block a step        *)
(***************************************************************************)
\* copy_dynamic_huffman_block up to let cl_alphabet = ...
read_dynamic_header(s, eof, oc) ==
    Then(read_bits(s, 5, "LsbFirst", eof), LAMBDA hlit :
    IF AsU16(hlit.v) + 257 > 286 THEN Ret("panic", hlit.s, 0)
    ELSE
    Then(read_bits(hlit.s, 5, "LsbFirst", eof), LAMBDA hdist :
    Then(read_bits(hdist.s, 4, "LsbFirst", eof), LAMBDA hclen :
    Then(read_code_lengths(hclen.s, 0, AsU16(hclen.v) + 4,
                           [i \in 1..19 |-> <<0, 0>>], eof),
         LAMBDA code_lengths :
    Then(Built(code_lengths.s, from_code_lengths(code_lengths.v, oc)),
         LAMBDA cl_alphabet :
    Ret("ok", cl_alphabet.s,
        [hlit |-> AsU16(hlit.v) + 257, hdist |-> AsU16(hdist.v) + 1,
         code_lengths |-> code_lengths.v]))))))

extract_iteration_idle_on_zeros(s, cl_alphabet, literal_code_lengths, cl_symbol, eof) ==
    Then(ExtractAction_from_bit_stream(s, cl_alphabet, eof),
         LAMBDA act :
            IF act.v.kind = "CodeLength"
            THEN Ret("ok", act.s,
                     <<Append(literal_code_lengths, <<cl_symbol, act.v.n>>),
                       cl_symbol + 1>>)
            ELSE IF act.v.kind = "CopyLastLength"
            THEN Located(copy_last_length(act.v.n, literal_code_lengths, cl_symbol),
                         act.s)
            ELSE Ret("ok", s, <<literal_code_lengths, cl_symbol>>))

\* one iteration of the loop of extract_alphabet: the list and cl_symbol
\* after it
extract_iteration(s, cl_alphabet, literal_code_lengths, cl_symbol, eof) ==
    Then(ExtractAction_from_bit_stream(s, cl_alphabet, eof),
         LAMBDA act :
            IF act.v.kind = "CodeLength"
            THEN Ret("ok", act.s,
                     <<Append(literal_code_lengths, <<cl_symbol, act.v.n>>),
                       cl_symbol + 1>>)
            ELSE IF act.v.kind = "CopyLastLength"
            THEN Located(copy_last_length(act.v.n, literal_code_lengths, cl_symbol),
                         act.s)
            ELSE Located(repeat_zero(act.v.n, literal_code_lengths, cl_symbol),
                         act.s))

\* the locals of extract_alphabet when it is entered for the literal/length
\* alphabet (of = "literal") or the distance alphabet
ExtractLocals(of, header, literal_lengths) ==
    [fn |-> "extract_alphabet", of |-> of, hlit |-> header.hlit,
     hdist |-> header.hdist, code_lengths |-> header.code_lengths,
     alphabet_size |-> IF of = "literal" THEN header.hlit ELSE header.hdist,
     literal_code_lengths |-> <<>>, cl_symbol |-> 0, iterations |-> 0,
     literal_lengths |-> literal_lengths]

\* the locals of copy_huffman_block: its two alphabets, as the lists they
\* are built from, or the static ones
CopyLocals(static, literal_lengths, distance_lengths) ==
    [fn |-> "copy_huffman_block", static |-> static,
     literal_lengths |-> literal_lengths, distance_lengths |-> distance_lengths]

literal_alphabet_of(l, oc) ==
    IF l.static THEN STATIC_LITERAL_ALPHABET ELSE from_code_lengths(l.literal_lengths, oc)

distance_alphabet_of(l, oc) ==
    IF l.static THEN STATIC_DISTANCE_ALPHABET
    ELSE from_code_lengths(l.distance_lengths, oc)
\* literal 97 with the code 0 and end-of-block with the code 1, sent as 97
\* zeros, a 1, 158 zeros and a 1
ShortLiterals == <<<<18, 86>>, <<1, 0>>, <<18, 127>>, <<18, 9>>, <<1, 0>>>>

\* literal 97 with the code 0 and end-of-block with the code 100; the
\* repeat of its length 3 gives 257, 258 and 259 the codes 101, 110 and 111
CopiedLiterals == <<<<18, 86>>, <<1, 0>>, <<18, 127>>, <<18, 9>>, <<3, 0>>, <<16, 0>>>>

General(hlit, hdist, lit, dist, symbols) ==
    [kind |-> "DynamicHuffman", data |-> <<97>>, nlen |-> 0,
     max_code_length |-> IF symbols = <<0, 1>> THEN 1 ELSE 3,
     head |-> [hlit |-> hlit, hdist |-> hdist, lit |-> lit, dist |-> dist],
     symbols |-> symbols]

\* dynamic blocks whose code-length symbols fill the declared alphabets
\* exactly, run past HLIT with zeros or with a repeated length, run past
\* HDIST, start with a repeat of the previous length, stop before HLIT, or
\* declare one distance code of zero bits (a block of literals only)
GeneralBodies ==
    {General(260, 1, CopiedLiterals, <<<<1, 0>>>>, <<0, 1, 0, 0>>),
     General(258, 1, Append(ShortLiterals, <<17, 0>>), <<<<1, 0>>>>, <<0, 1>>),
     General(258, 1, CopiedLiterals, <<<<1, 0>>>>, <<0, 1, 0, 0>>),
     General(257, 2, ShortLiterals, <<<<1, 0>>, <<17, 0>>>>, <<0, 1>>),
     General(257, 1, <<<<16, 0>>>> \o ShortLiterals, <<<<1, 0>>>>, <<0, 1>>),
     General(286, 1, ShortLiterals, <<<<1, 0>>>>, <<0, 1>>),
     General(257, 1, ShortLiterals, <<<<0, 0>>>>, <<0, 1>>)}

LoopChoices ==
    BlockChoices
    \cup {[kind |-> b.kind, data |-> b.data, nlen |-> b.nlen,
           max_code_length |-> b.max_code_length, head |-> b.head,
           symbols |-> b.symbols, final |-> f] :
             b \in GeneralBodies, f \in BOOLEAN}

MaxLoopBlocks == 2

InitLoops ==
    /\ \E n \in 1..MaxLoopBlocks :
          \E ds \in [1..n -> LoopChoices], tail \in Tails :
              /\ blocks = [k \in 1..n |->
                             [kind |-> ds[k].kind, data |-> ds[k].data,
                              nlen |-> ds[k].nlen, final |-> ds[k].final,
                              max_code_length |-> ds[k].max_code_length,
                              start |-> Len(Assemble(ds, k - 1)),
                              end |-> Len(Assemble(ds, k))]]
              /\ input = InputOf(ds, tail)
    /\ inner = input
    /\ buf = new(input).buf
    /\ read_bit_pos = new(input).read_bit_pos
    /\ load_byte_pos = new(input).load_byte_pos
    /\ overflow_checks \in BOOLEAN
    /\ eof_mode \in EofModes
    /\ panicked = FALSE
    /\ last = NoCall /\ pos = 0 /\ pure = TRUE /\ failed = FALSE
    /\ alphabet_lengths = <<>> /\ message = <<>> /\ decoded = <<>>
    /\ prefix = 0 /\ resolved = NotResolved
    /\ output = <<>> /\ pc = "header" /\ returned = "none"
    /\ block_header = NoHeader /\ n_blocks = 0 /\ header_at = 0
    /\ locals = NoLocals

\* a step inside a block function has returned res with the output out: an
\* error or a panic ends decompress_blocks, otherwise it goes on at next_pc
\* with next_locals, the block being complete when done
Stepped(res, out, next_pc, next_locals, done) ==
    /\ Returned(res)
    /\ output' = out
    /\ pc' = IF res.r = "ok" THEN next_pc ELSE "returned"
    /\ returned' = IF res.r # "ok" THEN res.r
                   ELSE IF next_pc = "returned" THEN "ok" ELSE "none"
    /\ locals' = IF res.r = "ok" THEN next_locals ELSE locals
    /\ n_blocks' = IF res.r = "ok" /\ done THEN n_blocks + 1 ELSE n_blocks
    /\ UNCHANGED <<callvars, huffvars, fixvars, blocks, block_header, header_at>>

\* if block_header.is_final { break 'block; } and Ok(()), or the next header
AfterBlock == IF block_header.is_final THEN "returned" ELSE "header"

\* huffman::copy_static_huffman_block calls copy_huffman_block
EnterStaticBlock ==
    /\ pc = "block"
    /\ block_header.compression_type = "FixedHuffman"
    /\ Stepped(Ret("ok", Stream, 0), output, "symbol", CopyLocals(TRUE, <<>>, <<>>),
               FALSE)

\* huffman::copy_dynamic_huffman_block up to the first extract_alphabet
ReadDynamicHeader ==
    /\ pc = "block"
    /\ block_header.compression_type = "DynamicHuffman"
    /\ Stepped(read_dynamic_header(Stream, eof_mode, overflow_checks), output,
               "extract",
               ExtractLocals("literal",
                             read_dynamic_header(Stream, eof_mode, overflow_checks).v,
                             <<>>),
               FALSE)

\* the list and cl_symbol that an iteration returned, in the locals
Iterated(v) ==
    [locals EXCEPT !.literal_code_lengths = v[1], !.cl_symbol = v[2],
                   !.iterations = @ + 1]

\* an iteration of while (cl_symbol as usize) < alphabet_size
ExtractIteration ==
    /\ pc = "extract"
    /\ locals.cl_symbol < locals.alphabet_size
    /\ Stepped(extract_iteration(Stream,
                                 from_code_lengths(locals.code_lengths,
                                                   overflow_checks),
                                 locals.literal_code_lengths, locals.cl_symbol,
                                 eof_mode),
               output, "extract",
               Iterated(extract_iteration(Stream,
                                          from_code_lengths(locals.code_lengths,
                                                            overflow_checks),
                                          locals.literal_code_lengths,
                                          locals.cl_symbol, eof_mode).v),
               FALSE)

\* the loop of extract_alphabet is left and the alphabet built; after the
\* literal/length alphabet comes the distance alphabet, then
\* copy_huffman_block
ExtractReturn ==
    /\ pc = "extract"
    /\ locals.cl_symbol >= locals.alphabet_size
    /\ Stepped(Built(Stream, from_code_lengths(locals.literal_code_lengths,
                                               overflow_checks)),
               output,
               IF locals.of = "literal" THEN "extract" ELSE "symbol",
               IF locals.of = "literal"
               THEN ExtractLocals("distance", locals, locals.literal_code_lengths)
               ELSE CopyLocals(FALSE, locals.literal_lengths,
                               locals.literal_code_lengths),
               FALSE)

\* copy_huffman_iteration has returned res
SymbolCopied(res) ==
    Stepped(Ret(IF res.r = "break" THEN "ok" ELSE res.r, res.s, 0), res.out,
            IF res.r = "break" THEN AfterBlock ELSE "symbol",
            IF res.r = "break" THEN NoLocals ELSE locals,
            res.r = "break")

\* an iteration of the loop of copy_huffman_block
CopySymbol ==
    /\ pc = "symbol"
    /\ SymbolCopied(copy_huffman_iteration(Stream, output,
                                           literal_alphabet_of(locals, overflow_checks),
                                           distance_alphabet_of(locals,
                                                                overflow_checks),
                                           eof_mode))

NextLoops ==
    \/ ReadBlockHeader
    \/ CopyUncompressedBlock
    \/ ReservedBlock
    \/ EnterStaticBlock
    \/ ReadDynamicHeader
    \/ ExtractIteration
    \/ ExtractReturn
    \/ CopySymbol

SpecLoops == InitLoops /\ [][NextLoops]_vars

(***************************************************************************)
(* Properties of the loops                                                 *)
(***************************************************************************)
\* C16: a dynamic Huffman block whose code-length symbols give more code
\* lengths than the alphabet being read has symbols is refused: while
\* extract_alphabet goes on, for the literal/length alphabet (HLIT symbols)
\* or the distance alphabet (HDIST symbols), the symbol counter has not
\* passed the alphabet size, so no alphabet is built from such a stream.
RunsStayWithinAlphabet ==
    pc = "extract" => locals.cl_symbol <= locals.alphabet_size

\* decompress_blocks is a sequential function: until it has returned, its
\* next step is taken.  This is weak fairness of NextLoops,
\*   []<>~ENABLED <<NextLoops>>_vars \/ []<><<NextLoops>>_vars,
\* with the condition under which NextLoops has a step, pc # "returned",
\* written in place of ENABLED <<NextLoops>>_vars.
SpecLoopsFair ==
    SpecLoops /\ ([]<>(pc = "returned") \/ []<><<NextLoops>>_vars)

\* the step is an iteration of the block loop, of the loop of
\* copy_huffman_block or of the loop of extract_alphabet
LoopIteration ==
    \/ pc \in {"header", "symbol"}
    \/ pc = "extract" /\ locals.cl_symbol < locals.alphabet_size

\* C17: decompress_blocks terminates on every input: it eventually returns
\* (Ok, an error or a panic); every iteration of the block loop, of the
\* symbol loop and of extract_alphabet after which the decoder goes on has
\* consumed at least one bit of the input or increased the code-length
\* symbol counter; and extract_alphabet has never run more iterations than
\* its alphabet has symbols.
DecompressTerminates ==
    /\ <>(pc = "returned")
    /\ [][(LoopIteration /\ pc' # "returned")
             => \/ AbsPos(Stream)' > AbsPos(Stream)
                \/ /\ pc = "extract"
                   /\ pc' = "extract"
                   /\ locals'.cl_symbol > locals.cl_symbol]_vars
    /\ [](pc = "extract" => locals.iterations <= locals.alphabet_size)

\* a dynamic block and a fixed block have been decoded, through iterations
\* of all three loops, and Ok was returned
DecompressTerminatesWitness ==
    /\ pc = "returned"
    /\ returned = "ok"
    /\ n_blocks = 2
    /\ blocks[1].kind = "DynamicHuffman"
    /\ blocks[2].kind = "FixedHuffman"
    /\ output = <<97, 144, 97>>

(***************************************************************************)
(* compression::zlib: the two header bytes CMF and FLG, their check, and   *)
(* the block-header loop of decompress.                                    *)
(***************************************************************************)
\* u16::pow(2u16, exp): past 2^15 the multiplication overflows, which panics
\* with overflow checks and wraps without them
pow2_u16(exp, oc) ==
    IF exp >= 16
    THEN IF oc THEN [r |-> "panic", v |-> 0]
         ELSE [r |-> "ok", v |-> (2 ^ (exp % 16) * 2 ^ 16) % W16]
    ELSE [r |-> "ok", v |-> 2 ^ exp]

\* impl From<u8> for CompressionMethod
CompressionMethod_from(b, oc) ==
    LET cm == BitAnd(b, 15)
        cinfo == b \div 16
    IN IF cm = 8
       THEN [r |-> pow2_u16(cinfo + 8, oc).r,
             v |-> [kind |-> "Deflate",
                    window_size |-> pow2_u16(cinfo + 8, oc).v]]
       ELSE [r |-> "ok", v |-> [kind |-> "Unknown", window_size |-> 0]]

\* impl From<u8> for Flags
Flags_from(b) ==
    LET preset_dictionary == BitAnd(b, 8) = 5
        flevel == b \div 64
    IN [preset_dictionary |-> preset_dictionary,
        compression_level |-> <<"Level1", "Level2", "Level3", "Level4">>[flevel + 1]]

check_cmf_flg_mod_32(cmf, flg) == (256 * cmf + flg) % 32 = 0

check_cmf_flg(cmf, flg) == (256 * cmf + flg) % 31 = 0

\* zlib::read_block_header, which reads nothing and reports a final block
zlib_read_block_header(bit_idx, bytes) ==
    [is_final |-> TRUE, compression_type |-> "NoCompression"]

NoMethod == [kind |-> "None", window_size |-> 0]

NoFlags == [preset_dictionary |-> FALSE, compression_level |-> "None"]

\* the locals of zlib::decompress; headers_read counts the calls of
\* read_block_header
ZlibLocals(compression_method, flags, bit_idx, headers_read) ==
    [fn |-> "decompress", compression_method |-> compression_method,
     flags |-> flags, bit_idx |-> bit_idx, headers_read |-> headers_read]

Bytes == 0..255

\* decompress is called with every pair of header bytes, and with fewer than
\* two bytes
InitZlib ==
    /\ input \in {<<>>} \cup {<<cmf>> : cmf \in Bytes}
                 \cup {<<cmf, flg>> : cmf \in Bytes, flg \in Bytes}
    /\ inner = input
    /\ buf = new(input).buf
    /\ read_bit_pos = new(input).read_bit_pos
    /\ load_byte_pos = new(input).load_byte_pos
    /\ overflow_checks \in BOOLEAN
    /\ eof_mode = "keep"
    /\ panicked = FALSE
    /\ last = NoCall /\ pos = 0 /\ pure = TRUE /\ failed = FALSE
    /\ alphabet_lengths = <<>> /\ message = <<>> /\ decoded = <<>>
    /\ prefix = 0 /\ resolved = NotResolved
    /\ blocks = <<>> /\ output = <<>> /\ pc = "method" /\ returned = "none"
    /\ block_header = NoHeader /\ n_blocks = 0 /\ header_at = 0
    /\ locals = ZlibLocals(NoMethod, NoFlags, 0, 0)

\* decompress goes on at next_pc, or returns with the outcome r
ZlibStepped(r, next_pc, next_locals) ==
    /\ pc' = IF r = "ok" THEN next_pc ELSE "returned"
    /\ returned' = IF r = "ok" /\ next_pc # "returned" THEN "none" ELSE r
    /\ locals' = IF r = "ok" THEN next_locals ELSE locals
    /\ panicked' = (r = "panic")
    /\ UNCHANGED <<inner, buf, read_bit_pos, load_byte_pos, input,
                   overflow_checks, eof_mode>>
    /\ UNCHANGED <<callvars, huffvars, fixvars, blocks, output, block_header,
                   n_blocks, header_at>>

\* let compression_method = CompressionMethod::from(bytes[0]);
ZlibCompressionMethod ==
    /\ pc = "method"
    /\ IF Len(input) < 1
       THEN ZlibStepped("panic", "flags", locals)
       ELSE ZlibStepped(CompressionMethod_from(input[1], overflow_checks).r,
                        "flags",
                        [locals EXCEPT !.compression_method =
                            CompressionMethod_from(input[1], overflow_checks).v])

\* let flags = Flags::from(bytes[1]);
ZlibFlags ==
    /\ pc = "flags"
    /\ IF Len(input) < 2
       THEN ZlibStepped("panic", "check", locals)
       ELSE ZlibStepped("ok", "check",
                        [locals EXCEPT !.flags = Flags_from(input[2])])

\* if !check_cmf_flg(bytes[0], bytes[1]) { bail!("FCHECK failed"); }
\* let mut bit_idx: usize = 16;
ZlibCheck ==
    /\ pc = "check"
    /\ IF ~check_cmf_flg(input[1], input[2])
       THEN ZlibStepped("bail", "loop", locals)
       ELSE ZlibStepped("ok", "loop", [locals EXCEPT !.bit_idx = 16])

\* one iteration of the loop of decompress; Ok(()) after a final block
ZlibReadBlockHeader ==
    /\ pc = "loop"
    /\ ZlibStepped("ok",
                   IF zlib_read_block_header(locals.bit_idx, input).is_final
                   THEN "returned" ELSE "loop",
                   [locals EXCEPT !.bit_idx = @ + 3, !.headers_read = @ + 1])

NextZlib ==
    \/ ZlibCompressionMethod \/ ZlibFlags \/ ZlibCheck \/ ZlibReadBlockHeader

SpecZlib == InitZlib /\ [][NextZlib]_vars

\* decompress was called with the header bytes CMF and FLG
HasHeader == Len(input) >= 2 /\ locals.fn = "decompress"

CMF == input[1]

FLG == input[2]

\* C18: a CMF/FLG pair with (256*CMF + FLG) mod 31 # 0 is never accepted
\* and read_block_header is never called for it: decompress returns the
\* FCHECK error, or it has panicked before the check on the overflow of the
\* window size (compression method 8, CINFO >= 8, overflow checks on).
BadCheckFails ==
    (HasHeader /\ (256 * CMF + FLG) % 31 # 0)
        => /\ locals.headers_read = 0
           /\ pc # "loop"
           /\ pc = "returned"
                => \/ returned = "bail"
                   \/ /\ returned = "panic"
                      /\ CMF % 16 = 8 /\ CMF \div 16 >= 8 /\ overflow_checks

\* the header 0x78 0x02, whose check value is wrong, has been refused
BadCheckFailsWitness ==
    /\ input = <<120, 2>>
    /\ pc = "returned"
    /\ returned = "bail"
    /\ locals.compression_method = [kind |-> "Deflate", window_size |-> 32768]
    /\ locals.headers_read = 0

\* C19: decompress accepts a header only if the low nibble of CMF is 8: it
\* never returns Ok for another compression method.
OnlyDeflateAccepted ==
    (HasHeader /\ pc = "returned" /\ returned = "ok") => CMF % 16 = 8

\* C20: the flags decompress has read say preset_dictionary exactly when
\* bit 5 of FLG is set, and give the compression level of the top two bits
\* of FLG.
FlagsAsClaimed ==
    (HasHeader /\ locals.flags # NoFlags)
        => /\ locals.flags.preset_dictionary = ((FLG \div 32) % 2 = 1)
           /\ locals.flags.compression_level
                  = <<"Level1", "Level2", "Level3", "Level4">>[FLG \div 64 + 1]

(***************************************************************************)
(* digest: CRC-32 and the DigestReader.  A u32 is kept as its four bytes,  *)
(* least significant first.                                                *)
(***************************************************************************)
RECURSIVE BitXor(_, _)
BitXor(a, b) ==
    IF a = 0 THEN b
    ELSE IF b = 0 THEN a
    ELSE ((a + b) % 2) + 2 * BitXor(a \div 2, b \div 2)

U32Xor(v, w) ==
    <<BitXor(v[1], w[1]), BitXor(v[2], w[2]), BitXor(v[3], w[3]), BitXor(v[4], w[4])>>

\* v >> 1 on u32
U32Shr1(v) ==
    <<v[1] \div 2 + (v[2] % 2) * 128, v[2] \div 2 + (v[3] % 2) * 128,
      v[3] \div 2 + (v[4] % 2) * 128, v[4] \div 2>>

\* v >> 8 on u32
U32Shr8(v) == <<v[2], v[3], v[4], 0>>

\* 0xedb88320
CrcPolynomial == <<32, 131, 184, 237>>

\* the body of the loop over k of make_crc_table, k more times
RECURSIVE crc_table_loop(_, _)
crc_table_loop(c, k) ==
    IF k = 0 THEN c
    ELSE crc_table_loop(IF c[1] % 2 # 0 THEN U32Xor(CrcPolynomial, U32Shr1(c))
                        ELSE U32Shr1(c),
                        k - 1)

\* const CRC_TABLE: [u32; 256] = make_crc_table();
CRC_TABLE == [n \in 0..255 |-> crc_table_loop(<<n, 0, 0, 0>>, 8)]

\* Crc32::new, Crc32::reset
Crc32_new == <<255, 255, 255, 255>>

\* Crc32::update; the index (crc ^ b) & 0xff is the low byte of crc ^ b
Crc32_update(crc, b) ==
    U32Xor(CRC_TABLE[BitXor(crc[1], b)], U32Shr8(crc))

\* Crc32::digest
Crc32_digest(crc) == U32Xor(crc, <<255, 255, 255, 255>>)

\* for b in bytes { digest.update(*b) }
RECURSIVE Crc32_fold(_, _)
Crc32_fold(crc, bytes) ==
    IF bytes = <<>> THEN crc
    ELSE Crc32_update(Crc32_fold(crc, SubSeq(bytes, 1, Len(bytes) - 1)),
                      bytes[Len(bytes)])

\* a DigestReader over the bytes rest with the digest state crc
Reader(rest, crc) == [inner |-> rest, crc |-> crc]

\* DigestReader::reset_digest
reset_digest(rd) == Reader(rd.inner, Crc32_new)

\* read_exact on the DigestReader: DigestReader::read until n bytes are
\* there; every byte read goes into the digest, and the source running dry
\* is the error UnexpectedEof
digest_read_exact(rd, n) ==
    IF Len(rd.inner) < n
    THEN Ret("err", Reader(<<>>, Crc32_fold(rd.crc, rd.inner)), <<>>)
    ELSE Ret("ok",
             Reader(SubSeq(rd.inner, n + 1, Len(rd.inner)),
                    Crc32_fold(rd.crc, SubSeq(rd.inner, 1, n))),
             SubSeq(rd.inner, 1, n))

\* reader.take(n).read_to_end(..) on the DigestReader: the bytes up to n
\* that are there, all of them through the digest
digest_take_to_end(rd, n) ==
    digest_read_exact(rd, Min(n, Len(rd.inner)))

\* read_exact on reader.get_mut(), the BufReader below the digest
inner_read_exact(rd, n) ==
    IF Len(rd.inner) < n
    THEN Ret("err", Reader(<<>>, rd.crc), <<>>)
    ELSE Ret("ok", Reader(SubSeq(rd.inner, n + 1, Len(rd.inner)), rd.crc),
             SubSeq(rd.inner, 1, n))

(***************************************************************************)
(* loader::png: the file header, the chunks and IHDR                       *)
(***************************************************************************)
PngSignature == <<137, 80, 78, 71, 13, 10, 26, 10>>

TypeIHDR == <<73, 72, 68, 82>>

TypePLTE == <<80, 76, 84, 69>>

TypeIDAT == <<73, 68, 65, 84>>

TypeIEND == <<73, 69, 78, 68>>

read_png_header(rd) ==
    Then(digest_read_exact(rd, 8),
         LAMBDA b : IF b.v # PngSignature THEN Ret("bail", b.s, <<>>)
                    ELSE Ret("ok", b.s, <<>>))

\* a u32 is below 2^16
IsSmall(u) == u[3] = 0 /\ u[4] = 0

\* the value of a u32 below 2^16
SmallValue(u) == u[1] + 256 * u[2]

\* u32::from_be_bytes
from_be_bytes(b) == <<b[4], b[3], b[2], b[1]>>

read_u32(rd) ==
    Then(digest_read_exact(rd, 4), LAMBDA b : Valued(b, from_be_bytes(b.v)))

read_u8(rd) ==
    Then(digest_read_exact(rd, 1), LAMBDA b : Valued(b, b.v[1]))

\* str::from_utf8 on four bytes that are ASCII or hold a byte from 0xF8 on,
\* which no UTF-8 text holds
from_utf8(b) ==
    IF \A i \in 1..Len(b) : b[i] < 128 THEN "ok" ELSE "err"

read_chunk_type(rd) ==
    Then(digest_read_exact(rd, 4),
         LAMBDA b :
            IF from_utf8(b.v) # "ok" THEN Ret("err", b.s, <<>>)
            ELSE Valued(b, IF b.v = TypeIHDR THEN "IHDR"
                           ELSE IF b.v = TypePLTE THEN "PLTE"
                           ELSE IF b.v = TypeIDAT THEN "IDAT"
                           ELSE IF b.v = TypeIEND THEN "IEND"
                           ELSE "Ancillary"))

\* the value is <<length, chunk_type>>
read_chunk_length_and_type(rd) ==
    Then(read_u32(rd),
         LAMBDA length :
            Then(read_chunk_type(reset_digest(length.s)),
                 LAMBDA chunk_type : Valued(chunk_type, <<length.v, chunk_type.v>>)))

\* the value is the digest check_crc took from the reader before it read
\* the chunk's CRC; a CRC that differs is let through
check_crc(rd) ==
    Then(read_u32(rd), LAMBDA crc : Valued(crc, Crc32_digest(rd.crc)))

skip_bytes_keeping_position(rd, n) ==
    IF ~IsSmall(n) \/ Len(rd.inner) < SmallValue(n) THEN Ret("err", rd, <<>>)
    ELSE Ret("ok", rd, <<>>)

\* skip_bytes(&mut reader.get_mut(), chunk_length); more bytes than the file
\* holds cannot be read
skip_bytes(rd, n) ==
    IF ~IsSmall(n) THEN Ret("err", rd, <<>>)
    ELSE inner_read_exact(rd, SmallValue(n))

\* reader.take(chunk_length.into()).read_to_end(&mut compressed_data)
read_idat(rd, n) ==
    IF ~IsSmall(n) THEN digest_take_to_end(rd, Len(rd.inner))
    ELSE digest_take_to_end(rd, SmallValue(n))

\* the value holds what process_chunk returns (more), compressed_data after
\* it, and the chunk type and the digest its check_crc saw
process_chunk(rd, compressed_data) ==
    Then(read_chunk_length_and_type(rd),
         LAMBDA head :
            IF head.v[2] = "IEND"
            THEN Valued(head, [more |-> FALSE, chunk_type |-> "IEND",
                               data |-> compressed_data, digest |-> <<>>])
            ELSE IF head.v[2] = "PLTE" \/ head.v[2] = "IHDR"
            THEN Ret("bail", head.s, <<>>)
            ELSE Then(IF head.v[2] = "IDAT"
                      THEN read_idat(head.s, head.v[1])
                      ELSE skip_bytes(head.s, head.v[1]),
                      LAMBDA body : Then(check_crc(body.s),
                      LAMBDA crc :
                         Valued(crc,
                                [more |-> TRUE, chunk_type |-> head.v[2],
                                 data |-> IF head.v[2] = "IDAT"
                                          THEN compressed_data \o body.v
                                          ELSE compressed_data,
                                 digest |-> crc.v]))))

\* impl From<u8> for BitDepth
BitDepth_from(b) ==
    IF b = 1 THEN "Bits1" ELSE IF b = 2 THEN "Bits2" ELSE IF b = 4 THEN "Bits4"
    ELSE IF b = 8 THEN "Bits8" ELSE IF b = 16 THEN "Bits16" ELSE "Invalid"

\* impl From<u8> for ColorType
ColorType_from(b) ==
    IF b = 0 THEN "Grayscale" ELSE IF b = 2 THEN "RGB" ELSE IF b = 3 THEN "Palette"
    ELSE IF b = 4 THEN "GrayscaleAlpha" ELSE IF b = 6 THEN "RGBA" ELSE "Invalid"

\* bytes_per_pixel: 0 stands for the two bail! arms
bytes_per_pixel(color_type, bit_depth) ==
    IF color_type = "Grayscale" /\ bit_depth \in {"Bits1", "Bits2", "Bits4", "Bits8"}
    THEN 1
    ELSE IF color_type = "Grayscale" /\ bit_depth = "Bits16" THEN 2
    ELSE IF color_type = "RGB" /\ bit_depth = "Bits8" THEN 3
    ELSE IF color_type = "RGB" /\ bit_depth = "Bits16" THEN 6
    ELSE IF color_type = "Palette" THEN 0
    ELSE IF color_type = "GrayscaleAlpha" /\ bit_depth = "Bits8" THEN 2
    ELSE IF color_type = "GrayscaleAlpha" /\ bit_depth = "Bits16" THEN 4
    ELSE IF color_type = "RGBA" /\ bit_depth = "Bits8" THEN 4
    ELSE IF color_type = "RGBA" /\ bit_depth = "Bits16" THEN 8
    ELSE 0

NoIhdr == [width |-> <<0, 0, 0, 0>>, height |-> <<0, 0, 0, 0>>,
           bit_depth |-> "Invalid", color_type |-> "Invalid", bytes_per_pixel |-> 0]

\* the value is <<ihdr, the digest check_crc saw>>
read_ihdr(rd) ==
    Then(read_chunk_length_and_type(rd), LAMBDA head :
    IF head.v[2] # "IHDR" THEN Ret("bail", head.s, <<>>)
    ELSE IF head.v[1] # <<13, 0, 0, 0>> THEN Ret("bail", head.s, <<>>)
    ELSE
    Then(read_u32(head.s), LAMBDA width :
    Then(read_u32(width.s), LAMBDA height :
    Then(read_u8(height.s), LAMBDA bit_depth :
    Then(read_u8(bit_depth.s), LAMBDA color_type :
    IF bytes_per_pixel(ColorType_from(color_type.v), BitDepth_from(bit_depth.v)) = 0
    THEN Ret("bail", color_type.s, <<>>)
    ELSE
    Then(read_u8(color_type.s), LAMBDA compression_method :
    IF compression_method.v # 0 THEN Ret("bail", compression_method.s, <<>>)
    ELSE
    Then(read_u8(compression_method.s), LAMBDA filter_method :
    IF filter_method.v # 0 THEN Ret("bail", filter_method.s, <<>>)
    ELSE
    Then(read_u8(filter_method.s), LAMBDA interlace_method :
    IF interlace_method.v # 0 THEN Ret("bail", interlace_method.s, <<>>)
    ELSE
    Then(check_crc(interlace_method.s), LAMBDA crc :
    Valued(crc,
           <<[width |-> width.v, height |-> height.v,
              bit_depth |-> BitDepth_from(bit_depth.v),
              color_type |-> ColorType_from(color_type.v),
              bytes_per_pixel |->
                  bytes_per_pixel(ColorType_from(color_type.v),
                                  BitDepth_from(bit_depth.v))],
             crc.v>>))))))))))

\* column k of the long multiplication of two u32 values
MulColumn(a, b, k) ==
    (IF k <= 3 THEN a[1] * b[k + 1] ELSE 0)
    + (IF k >= 1 /\ k <= 4 THEN a[2] * b[k] ELSE 0)
    + (IF k >= 2 /\ k <= 5 THEN a[3] * b[k - 1] ELSE 0)
    + (IF k >= 3 /\ k <= 6 THEN a[4] * b[k - 2] ELSE 0)

\* the eight bytes of a * b, least significant first
RECURSIVE MulBytes(_, _, _, _)
MulBytes(a, b, k, carry) ==
    IF k = 8 THEN <<>>
    ELSE <<(MulColumn(a, b, k) + carry) % 256>>
         \o MulBytes(a, b, k + 1, (MulColumn(a, b, k) + carry) \div 256)

\* a * b on u32: a product from 2^32 on panics with overflow checks and
\* wraps without them
u32_mul(a, b, oc) ==
    IF SubSeq(MulBytes(a, b, 0, 0), 5, 8) # <<0, 0, 0, 0>> /\ oc
    THEN [r |-> "panic", v |-> <<0, 0, 0, 0>>]
    ELSE [r |-> "ok", v |-> SubSeq(MulBytes(a, b, 0, 0), 1, 4)]

\* (ihdr.width * ihdr.height * ihdr.bytes_per_pixel) as usize
image_size(ihdr, oc) ==
    IF u32_mul(ihdr.width, ihdr.height, oc).r # "ok"
    THEN u32_mul(ihdr.width, ihdr.height, oc)
    ELSE u32_mul(u32_mul(ihdr.width, ihdr.height, oc).v,
                 <<ihdr.bytes_per_pixel, 0, 0, 0>>, oc)

(***************************************************************************)
(* loader::png: apply_filters.  An image is the sequence of its bytes:     *)
(* image[i] of the code is element i + 1.                                  *)
(***************************************************************************)
\* image[i], a panic past the end
ImageByte(image, i) ==
    IF i < Len(image) THEN [r |-> "ok", v |-> image[i + 1]]
    ELSE [r |-> "panic", v |-> 0]

prior_of_same_row(image, scanline_len, scanline_idx, byte_idx) ==
    IF scanline_idx = 0 \/ byte_idx < 0 THEN [r |-> "ok", v |-> 0]
    ELSE ImageByte(image, scanline_len * scanline_idx + byte_idx)

prior(image, scanline_len, scanline_idx, byte_idx) ==
    IF scanline_idx = 0 \/ byte_idx < 0 THEN [r |-> "ok", v |-> 0]
    ELSE ImageByte(image, scanline_len * (scanline_idx - 1) + byte_idx)

raw(image, scanline_len, scanline_idx, byte_idx) ==
    IF ~(byte_idx < scanline_len) THEN [r |-> "panic", v |-> 0]
    ELSE IF byte_idx < 0 THEN [r |-> "ok", v |-> 0]
    ELSE ImageByte(image, scanline_len * scanline_idx + byte_idx)

Abs(x) == IF x < 0 THEN -x ELSE x

paeth_predictor(a, b, c) ==
    LET p == a + b - c
        pa == Abs(p - a)
        pb == Abs(p - b)
        p_c == Abs(p - c)
    IN IF pa <= pb /\ pa <= p_c THEN a
       ELSE IF pb <= p_c THEN b
       ELSE c

\* the byte the arm of filter_algorithm adds to a filtered byte
predictor(filter_algorithm, image, scanline_len, scanline_idx, byte_idx, bpp) ==
    LET left == raw(image, scanline_len, scanline_idx, byte_idx - bpp)
        above == prior(image, scanline_len, scanline_idx, byte_idx)
        above_left == prior(image, scanline_len, scanline_idx, byte_idx - bpp)
    IN IF filter_algorithm = 1 THEN left
       ELSE IF filter_algorithm = 2 THEN above
       ELSE IF filter_algorithm = 3
       THEN [r |-> IF left.r = "ok" THEN above.r ELSE left.r,
             v |-> ((left.v + above.v) \div 2) % 256]
       ELSE [r |-> IF left.r # "ok" THEN left.r
                   ELSE IF above.r # "ok" THEN above.r ELSE above_left.r,
             v |-> paeth_predictor(left.v, above.v, above_left.v)]

\* for (byte_idx, byte) in scanline.iter().enumerate() { ... } of the arms
\* Sub, Up, Average and Paeth, from byte_idx on
RECURSIVE filter_bytes(_, _, _, _, _, _, _)
filter_bytes(filter_algorithm, scanline, byte_idx, image, scanline_len, scanline_idx, bpp) ==
    IF byte_idx >= Len(scanline) THEN [r |-> "ok", v |-> image]
    ELSE LET added == predictor(filter_algorithm, image, scanline_len, scanline_idx,
                                byte_idx, bpp)
             image_idx == scanline_len * scanline_idx + byte_idx
         IN IF added.r # "ok" \/ ~(image_idx < Len(image))
            THEN [r |-> "panic", v |-> image]
            ELSE filter_bytes(filter_algorithm, scanline, byte_idx + 1,
                              [image EXCEPT ![image_idx + 1] =
                                  (scanline[byte_idx + 1] + added.v) % 256],
                              scanline_len, scanline_idx, bpp)

\* the arm _ of the match, which FilterAlgorithm::None takes:
\* image[image_idx..image_idx + scanline_len].as_mut().write(&scanline[1..])?
\* write copies as many bytes as both slices hold
copy_scanline(scanline, image, scanline_len, scanline_idx) ==
    LET image_idx == scanline_len * scanline_idx
        n == Min(scanline_len, Len(scanline) - 1)
    IN IF image_idx + scanline_len > Len(image) \/ Len(scanline) < 1
       THEN [r |-> "panic", v |-> image]
       ELSE [r |-> "ok",
             v |-> [i \in 1..Len(image) |->
                      IF i > image_idx /\ i <= image_idx + n
                      THEN scanline[i - image_idx + 1]
                      ELSE image[i]]]

\* the body of the loop of apply_filters for one chunk of scanline_len + 1
\* bytes or fewer
filter_scanline(filter_and_scanline, image, scanline_len, scanline_idx, bpp) ==
    IF filter_and_scanline[1] > 4 THEN [r |-> "bail", v |-> image]
    ELSE IF filter_and_scanline[1] = 0
    THEN copy_scanline(Tail(filter_and_scanline), image, scanline_len, scanline_idx)
    ELSE filter_bytes(filter_and_scanline[1], Tail(filter_and_scanline), 0, image,
                      scanline_len, scanline_idx, bpp)

\* for (scanline_idx, filter_and_scanline) in
\*     decompressed_data.chunks(scanline_len + 1).enumerate() { ... }
RECURSIVE filter_scanlines(_, _, _, _, _)
filter_scanlines(decompressed_data, image, scanline_len, scanline_idx, bpp) ==
    IF decompressed_data = <<>> THEN [r |-> "ok", v |-> image]
    ELSE LET n == Min(scanline_len + 1, Len(decompressed_data))
             done == filter_scanline(SubSeq(decompressed_data, 1, n), image,
                                     scanline_len, scanline_idx, bpp)
         IN IF done.r # "ok" THEN done
            ELSE filter_scanlines(SubSeq(decompressed_data, n + 1,
                                         Len(decompressed_data)),
                                  done.v, scanline_len, scanline_idx + 1, bpp)

\* more than the bytes of any file or image here
FarLength == 2 ^ 16

\* ihdr.width as usize * bpp as usize.  From a width of 2^16 on the first
\* chunk of decompressed_data holds all of it, whatever the exact length
\* is: FarLength stands for every such length.
scanline_len_of(ihdr) ==
    IF IsSmall(ihdr.width) THEN SmallValue(ihdr.width) * ihdr.bytes_per_pixel
    ELSE FarLength

apply_filters(ihdr, decompressed_data, image) ==
    filter_scanlines(decompressed_data, image, scanline_len_of(ihdr), 0,
                     ihdr.bytes_per_pixel)

(***************************************************************************)
(* The decompression from_file calls: zlib::decompress(&compressed_data,   *)
(* &mut decompressed_data), the zlib header in front of decompress_blocks  *)
(***************************************************************************)
\* the block loop of decompress_blocks, run to its end
RECURSIVE block_loop(_, _, _, _)
block_loop(s, out_buf, eof, oc) ==
    ThenOut(read_block_header(s, eof), out_buf,
            LAMBDA header :
               ThenOut(IF header.v.compression_type = "NoCompression"
                       THEN copy_uncompressed_block(header.s, out_buf, eof)
                       ELSE IF header.v.compression_type = "FixedHuffman"
                       THEN copy_static_huffman_block(header.s, out_buf, eof)
                       ELSE IF header.v.compression_type = "DynamicHuffman"
                       THEN copy_dynamic_huffman_block(header.s, out_buf, eof, oc)
                       ELSE Out("bail", header.s, out_buf),
                       out_buf,
                       LAMBDA copied :
                          IF header.v.is_final THEN copied
                          ELSE block_loop(copied.s, copied.out, eof, oc)))

decompress_blocks(in_bytes, out_buf, eof, oc) ==
    block_loop(new(in_bytes), out_buf, eof, oc)

\* the header is checked as the format describes it (compression method 8,
\* header checksum) and the bytes from offset 2 on go to decompress_blocks
zlib_decompress(bytes, out_buf, eof, oc) ==
    IF Len(bytes) < 2 THEN Out("err", new(bytes), out_buf)
    ELSE IF BitAnd(bytes[1], 15) # 8 \/ ~check_cmf_flg(bytes[1], bytes[2])
    THEN Out("bail", new(bytes), out_buf)
    ELSE decompress_blocks(SubSeq(bytes, 3, Len(bytes)), out_buf, eof, oc)

(***************************************************************************)
(* Specification SpecPng: Png::from_file on files put together from a      *)
(* signature, an IHDR chunk and a sequence of chunks                       *)
(***************************************************************************)
\* the CRC-32 of bytes, bit by bit: each byte is added into the low byte of
\* the register, which is then shifted out through the polynomial
\* F of the value x, which is worked out first
Strict(x, F(_)) == CHOOSE y \in {F(v) : v \in {x}} : TRUE

RECURSIVE Crc32Register(_)
Crc32Register(bytes) ==
    IF bytes = <<>> THEN <<255, 255, 255, 255>>
    ELSE Strict(Crc32Register(SubSeq(bytes, 1, Len(bytes) - 1)),
                LAMBDA register :
                   crc_table_loop(U32Xor(register, <<bytes[Len(bytes)], 0, 0, 0>>),
                                  8))

Crc32Of(bytes) == U32Xor(Crc32Register(bytes), <<255, 255, 255, 255>>)

\* the four bytes of a u32 in the file, most significant first
BeBytes(u) == <<u[4], u[3], u[2], u[1]>>

U32Of(n) == <<n % 256, n \div 256, 0, 0>>

ChunkBytes(c) ==
    BeBytes(U32Of(Len(c.data))) \o c.type \o c.data
    \o BeBytes(Crc32Of(c.type \o c.data))

PngChunk(type, data) == [type |-> type, data |-> data]

\* the IHDR chunk of a header h
IhdrChunk(h) ==
    PngChunk(TypeIHDR,
             BeBytes(h.width) \o BeBytes(h.height)
             \o <<h.bit_depth, h.color_type, 0, 0, h.interlace>>)

Header(width, height, bit_depth, color_type, interlace) ==
    [width |-> width, height |-> height, bit_depth |-> bit_depth,
     color_type |-> color_type, interlace |-> interlace]

\* 8-bit grayscale images of 1 x 1 and 1 x 2 pixels, one of 65536 x 65536
\* and one of (2^31 + 1) x 2 pixels, 16-bit RGBA of 1 x 1, and headers that
\* are refused: a palette, a bit depth of 3, interlacing
Headers ==
    {Header(U32Of(1), U32Of(1), 8, 0, 0),
     Header(U32Of(1), U32Of(2), 8, 0, 0),
     Header(<<0, 0, 1, 0>>, <<0, 0, 1, 0>>, 8, 0, 0),
     Header(<<1, 0, 0, 128>>, U32Of(2), 8, 0, 0),
     Header(U32Of(1), U32Of(1), 16, 6, 0),
     Header(U32Of(1), U32Of(1), 8, 3, 0),
     Header(U32Of(1), U32Of(1), 3, 0, 0),
     Header(U32Of(1), U32Of(1), 8, 0, 1)}

\* a zlib stream of one stored block
StoredStream(data, adler) ==
    <<120, 1, 1, Len(data), 0, 255 - Len(data), 255>> \o data \o adler

\* the scanline 7 behind the filter type None
OnePixel == StoredStream(<<0, 7>>, <<0, 9, 0, 8>>)

\* no scanline at all
NoPixel == StoredStream(<<>>, <<0, 0, 0, 1>>)

\* the scanlines 5 (Sub) and 3 (Up)
TwoRows == StoredStream(<<1, 5, 2, 3>>, <<0, 30, 0, 12>>)

TypeText == <<116, 69, 88, 116>>

\* a chunk type that is no text
TypeBroken == <<255, 69, 88, 116>>

ChunkChoices ==
    {PngChunk(TypeIDAT, OnePixel),
     PngChunk(TypeIDAT, SubSeq(OnePixel, 1, 5)),
     PngChunk(TypeIDAT, SubSeq(OnePixel, 6, Len(OnePixel))),
     PngChunk(TypeIDAT, TwoRows),
     PngChunk(TypeIDAT, NoPixel),
     PngChunk(TypeIDAT, <<>>),
     PngChunk(TypeText, <<>>),
     PngChunk(TypeText, <<65, 66>>),
     PngChunk(TypeIEND, <<>>),
     PngChunk(TypePLTE, <<1, 2, 3>>),
     PngChunk(TypeBroken, <<>>)}

MaxChunks == 3

AllChunks == ChunkChoices \cup {IhdrChunk(h) : h \in Headers}

\* the bytes and the CRC-32 of every chunk, computed once
BytesOfChunk == [c \in AllChunks |-> ChunkBytes(c)]

CrcOfChunk == [c \in AllChunks |-> Crc32Of(c.type \o c.data)]

\* the bytes of the chunks cs[1..k]
RECURSIVE ChunksBytes(_, _)
ChunksBytes(cs, k) ==
    IF k = 0 THEN <<>> ELSE ChunksBytes(cs, k - 1) \o BytesOfChunk[cs[k]]

Signatures == {PngSignature, <<137, 80, 78, 71, 13, 10, 26, 13>>}

\* the headers that read_ihdr accepts
Accepted(h) ==
    h.interlace = 0
    /\ bytes_per_pixel(ColorType_from(h.color_type), BitDepth_from(h.bit_depth)) # 0

NoPngLocals ==
    [fn |-> "from_file", crc |-> Crc32_new, ihdr |-> NoIhdr,
     decompressed_data |-> <<>>, image |-> <<>>]

InitPng ==
    /\ \E signature \in Signatures, h \in Headers, n \in 0..MaxChunks :
          \E cs \in [1..n -> ChunkChoices] :
              /\ (signature = PngSignature /\ Accepted(h)) \/ n = 0
              /\ LET all == [k \in 1..(n + 1) |->
                            IF k = 1 THEN IhdrChunk(h) ELSE cs[k - 1]]
                 IN /\ blocks = [k \in 1..(n + 1) |->
                                   [type |-> all[k].type, data |-> all[k].data,
                                    start |-> 8 + Len(ChunksBytes(all, k - 1)),
                                    end |-> 8 + Len(ChunksBytes(all, k))]]
                    /\ input = signature \o ChunksBytes(all, n + 1)
    /\ inner = input
    /\ buf = new(input).buf
    /\ read_bit_pos = new(input).read_bit_pos
    /\ load_byte_pos = new(input).load_byte_pos
    /\ overflow_checks \in BOOLEAN
    /\ eof_mode \in EofModes
    /\ panicked = FALSE
    /\ last = NoCall /\ pos = 0 /\ pure = TRUE /\ failed = FALSE
    /\ alphabet_lengths = <<>> /\ message = <<>> /\ decoded = <<>>
    /\ prefix = 0 /\ resolved = NotResolved
    /\ output = <<>> /\ pc = "png_header" /\ returned = "none"
    /\ block_header = NoHeader /\ n_blocks = 0 /\ header_at = 0
    /\ locals = NoPngLocals

\* from_file goes on at next_pc with the reader of res, or returns the
\* outcome of res through its ?
PngStepped(res, next_pc, next_locals, next_data, next_n, checked) ==
    /\ inner' = res.s.inner
    /\ locals' = IF res.r = "ok"
                 THEN [next_locals EXCEPT !.crc = res.s.crc]
                 ELSE [locals EXCEPT !.crc = res.s.crc]
    /\ pc' = IF res.r = "ok" THEN next_pc ELSE "returned"
    /\ returned' = IF res.r = "ok" THEN "none" ELSE res.r
    /\ output' = IF res.r = "ok" THEN next_data ELSE output
    /\ n_blocks' = IF res.r = "ok" THEN next_n ELSE n_blocks
    /\ decoded' = IF res.r = "ok" THEN decoded \o checked ELSE decoded
    /\ header_at' = Len(input) - Len(inner)
    /\ panicked' = (res.r = "panic")
    /\ UNCHANGED <<input, buf, read_bit_pos, load_byte_pos, overflow_checks,
                   eof_mode>>
    /\ UNCHANGED <<callvars, fixvars, alphabet_lengths, message, blocks,
                   block_header>>

\* read_png_header(&mut reader)?;
PngReadHeader ==
    /\ pc = "png_header"
    /\ PngStepped(read_png_header(Reader(inner, locals.crc)), "ihdr", locals,
                  output, n_blocks, <<>>)

IhdrRead(res) ==
    PngStepped(res, "chunks",
               IF res.r = "ok" THEN [locals EXCEPT !.ihdr = res.v[1]] ELSE locals,
               output, n_blocks + 1,
               IF res.r = "ok"
               THEN <<[chunk_type |-> "IHDR", digest |-> res.v[2]]>>
               ELSE <<>>)

\* let ihdr = read_ihdr(&mut reader)?;
PngReadIhdr ==
    /\ pc = "ihdr"
    /\ IhdrRead(read_ihdr(Reader(inner, locals.crc)))

ChunkProcessed(res) ==
    PngStepped(res,
               IF res.r = "ok" /\ res.v.more THEN "chunks" ELSE "decompress",
               locals,
               IF res.r = "ok" THEN res.v.data ELSE output,
               IF res.r = "ok" /\ res.v.more THEN n_blocks + 1 ELSE n_blocks,
               IF res.r = "ok" /\ res.v.more
               THEN <<[chunk_type |-> res.v.chunk_type, digest |-> res.v.digest]>>
               ELSE <<>>)

\* one iteration of while process_chunk(&mut reader, &mut compressed_data)? {}
PngProcessChunk ==
    /\ pc = "chunks"
    /\ ChunkProcessed(process_chunk(Reader(inner, locals.crc), output))

\* from_file goes on after a step that reads nothing from the file
PngComputed(r, next_pc, next_locals) ==
    /\ locals' = IF r = "ok" THEN next_locals ELSE locals
    /\ pc' = IF r = "ok" THEN next_pc ELSE "returned"
    /\ returned' = IF r = "ok" /\ next_pc # "returned" THEN "none" ELSE r
    /\ panicked' = (r = "panic")
    /\ UNCHANGED <<input, inner, buf, read_bit_pos, load_byte_pos, overflow_checks,
                   eof_mode>>
    /\ UNCHANGED <<callvars, huffvars, fixvars, blocks, output, block_header,
                   n_blocks, header_at>>

Decompressed(res) ==
    PngComputed(res.r, "image", [locals EXCEPT !.decompressed_data = res.out])

\* zlib::decompress(&compressed_data, &mut decompressed_data)?;
PngDecompress ==
    /\ pc = "decompress"
    /\ Decompressed(zlib_decompress(output, <<>>, eof_mode, overflow_checks))

Allocated(size) ==
    PngComputed(size.r, "filters",
                [locals EXCEPT !.image = [i \in 1..SmallValue(size.v) |-> 0]])

\* let image_size: usize = (ihdr.width * ihdr.height * ihdr.bytes_per_pixel) as usize;
\* let mut image: Vec<u8> = vec![0; image_size];
PngAllocate ==
    /\ pc = "image"
    /\ Allocated(image_size(locals.ihdr, overflow_checks))

Filtered(res) ==
    PngComputed(res.r, "returned", [locals EXCEPT !.image = res.v])

\* apply_filters(&ihdr, &mut decompressed_data, &mut image)?; Ok(Png { .. })
PngApplyFilters ==
    /\ pc = "filters"
    /\ Filtered(apply_filters(locals.ihdr, locals.decompressed_data, locals.image))

NextPng ==
    \/ PngReadHeader \/ PngReadIhdr \/ PngProcessChunk
    \/ PngDecompress \/ PngAllocate \/ PngApplyFilters

SpecPng == InitPng /\ [][NextPng]_vars

\* from_file is running, or has returned Ok
FromFile == locals.fn = "from_file" /\ returned \in {"none", "ok"}

\* the data of the IDAT chunks among the chunks 2..k of the file
RECURSIVE IdatData(_)
IdatData(k) ==
    IF k <= 1 THEN <<>>
    ELSE IdatData(k - 1)
         \o (IF blocks[k].type = TypeIDAT THEN blocks[k].data ELSE <<>>)

\* C21: after a valid IHDR, compressed_data is the data of the IDAT chunks
\* processed so far, in file order; none of the chunks processed is IEND;
\* each chunk was parsed from the byte where the chunk before it ended and
\* the reader stands on the byte where it ends (a skipped chunk has been
\* passed by its length and its CRC); and the loop has stopped at the first
\* IEND.
ChunksConcatenated ==
    (FromFile /\ n_blocks >= 1)
        => /\ output = IdatData(n_blocks)
           /\ \A k \in 2..n_blocks : blocks[k].type # TypeIEND
           /\ pc = "chunks"
                => /\ Len(input) - Len(inner) = blocks[n_blocks].end
                   /\ header_at = blocks[n_blocks].start
           /\ pc \in {"decompress", "image", "filters", "returned"}
                => /\ n_blocks < Len(blocks)
                   /\ blocks[n_blocks + 1].type = TypeIEND
                   /\ header_at = blocks[n_blocks + 1].start

\* a text chunk of two bytes was skipped, an IDAT chunk was copied and the
\* loop has stopped at IEND
ChunksConcatenatedWitness ==
    /\ FromFile
    /\ pc = "decompress"
    /\ n_blocks = 3
    /\ blocks[2].type = TypeText /\ blocks[2].data = <<65, 66>>
    /\ blocks[3].type = TypeIDAT
    /\ output = OnePixel

\* C22: the digest every check_crc call has taken from the reader is the
\* CRC-32 of the chunk's type bytes followed by its data bytes, for IHDR,
\* IDAT and skipped chunks.
DigestCoversTypeAndData ==
    locals.fn = "from_file"
        => \A k \in DOMAIN decoded :
              decoded[k].digest
                  = CrcOfChunk[PngChunk(blocks[k].type, blocks[k].data)]

\* width * height * bytes_per_pixel is below 2^16 and n is its value
IsProduct(n, ihdr) ==
    /\ SubSeq(MulBytes(ihdr.width, ihdr.height, 0, 0), 5, 8) = <<0, 0, 0, 0>>
    /\ MulBytes(SubSeq(MulBytes(ihdr.width, ihdr.height, 0, 0), 1, 4),
                <<ihdr.bytes_per_pixel, 0, 0, 0>>, 0, 0)
           = <<n % 256, n \div 256, 0, 0, 0, 0, 0, 0>>

\* C25: the Png that from_file returns has data.len() equal to
\* width * height * bytes_per_pixel, the product taken without wraparound.
ImageSizeExact ==
    (locals.fn = "from_file" /\ pc = "returned" /\ returned = "ok")
        => IsProduct(Len(locals.image), locals.ihdr)

(***************************************************************************)
(* apply_filters, one scanline of its loop at a time, on images whose      *)
(* scanlines were filtered by the forward filters of the PNG format.       *)
(* output is the image, locals the variables of apply_filters together     *)
(* with the raw scanline and the filter type of the scanline last done.    *)
(***************************************************************************)
MaxRows == 2
MaxScanline == 3

\* the bytes raw scanlines are made of
SampleBytes == {0, 1, 128, 255}

\* the strides of bytes_per_pixel whose scanlines fit MaxScanline
Strides == {bpp \in {1, 2, 3, 4, 6, 8} : bpp <= MaxScanline}

\* Raw(x) of the filter definitions: byte x of the unfiltered scanline, 0
\* left of it
RawAt(raw_scanline, x) == IF x < 0 THEN 0 ELSE raw_scanline[x + 1]

\* Prior(x) of the filter definitions: byte x of the reconstructed scanline
\* above, 0 on the first scanline and left of the scanline
PriorAt(image, scanline_len, scanline_idx, x) ==
    IF scanline_idx = 0 \/ x < 0 THEN 0
    ELSE image[scanline_len * (scanline_idx - 1) + x + 1]

\* PaethPredictor of the PNG format
PaethReference(a, b, c) ==
    LET p == a + b - c
        pa == IF p >= a THEN p - a ELSE a - p
        pb == IF p >= b THEN p - b ELSE b - p
        p_c == IF p >= c THEN p - c ELSE c - p
    IN IF pa <= pb /\ pa <= p_c THEN a ELSE IF pb <= p_c THEN b ELSE c

\* what the filter type predicts for byte x of the raw scanline
Predicted(filter_type, raw_scanline, image, scanline_len, scanline_idx, x, bpp) ==
    LET a == RawAt(raw_scanline, x - bpp)
        b == PriorAt(image, scanline_len, scanline_idx, x)
        c == PriorAt(image, scanline_len, scanline_idx, x - bpp)
    IN CASE filter_type = 0 -> 0
         [] filter_type = 1 -> a
         [] filter_type = 2 -> b
         [] filter_type = 3 -> (a + b) \div 2
         [] filter_type = 4 -> PaethReference(a, b, c)

\* the forward filter: the filter type byte, then Raw(x) minus the
\* prediction modulo 256
ForwardFilter(filter_type, raw_scanline, image, scanline_len, scanline_idx, bpp) ==
    <<filter_type>> \o
    [i \in 1..Len(raw_scanline) |->
        (raw_scanline[i] + 256
         - (Predicted(filter_type, raw_scanline, image, scanline_len, scanline_idx,
                      i - 1, bpp) % 256)) % 256]

FilterLocals(bpp, scanline_len, height, scanline_idx, filter_type, raw_scanline) ==
    [fn |-> "apply_filters", bpp |-> bpp, scanline_len |-> scanline_len,
     height |-> height, scanline_idx |-> scanline_idx,
     filter_type |-> filter_type, raw_scanline |-> raw_scanline]

\* an image of height scanlines of width pixels, zeroed as from_file does
InitFilters ==
    /\ input = <<>> /\ inner = <<>>
    /\ buf = new(input).buf
    /\ read_bit_pos = new(input).read_bit_pos
    /\ load_byte_pos = new(input).load_byte_pos
    /\ overflow_checks = FALSE
    /\ eof_mode = "keep"
    /\ panicked = FALSE
    /\ last = NoCall /\ pos = 0 /\ pure = TRUE /\ failed = FALSE
    /\ alphabet_lengths = <<>> /\ message = <<>> /\ decoded = <<>>
    /\ prefix = 0 /\ resolved = NotResolved
    /\ blocks = <<>>
    /\ pc = "filters" /\ returned = "none"
    /\ block_header = NoHeader /\ n_blocks = 0 /\ header_at = 0
    /\ \E bpp \in Strides, height \in 1..MaxRows :
          \E width \in 1..(MaxScanline \div bpp) :
              /\ output = [i \in 1..(width * bpp * height) |-> 0]
              /\ locals = FilterLocals(bpp, width * bpp, height, 0, 0, <<>>)

\* one pass of the loop of apply_filters, on the scanline the forward filter
\* of type filter_type makes of raw_scanline
ApplyScanline ==
    /\ pc = "filters"
    /\ locals.scanline_idx < locals.height
    /\ \E filter_type \in 0..4, raw_scanline \in [1..locals.scanline_len -> SampleBytes] :
          LET done == filter_scanline(
                          ForwardFilter(filter_type, raw_scanline, output,
                                        locals.scanline_len, locals.scanline_idx,
                                        locals.bpp),
                          output, locals.scanline_len, locals.scanline_idx,
                          locals.bpp)
          IN /\ output' = done.v
             /\ locals' = [locals EXCEPT !.scanline_idx = @ + 1,
                                         !.filter_type = filter_type,
                                         !.raw_scanline = raw_scanline]
             /\ pc' = IF done.r = "ok" THEN "filters" ELSE "returned"
             /\ returned' = IF done.r = "ok" THEN "none" ELSE done.r
             /\ panicked' = (done.r = "panic")
    /\ UNCHANGED <<input, inner, buf, read_bit_pos, load_byte_pos, overflow_checks,
                   eof_mode>>
    /\ UNCHANGED <<callvars, fixvars, alphabet_lengths, message, decoded, blocks,
                   block_header, n_blocks, header_at>>

\* Ok(()) after the last scanline
FiltersReturn ==
    /\ pc = "filters"
    /\ locals.scanline_idx = locals.height
    /\ pc' = "returned"
    /\ returned' = "ok"
    /\ UNCHANGED <<streamvars, callvars, huffvars, fixvars, output, blocks,
                   block_header, n_blocks, header_at, locals>>

NextFilters == ApplyScanline \/ FiltersReturn

SpecFilters == InitFilters /\ [][NextFilters]_vars

\* the scanline apply_filters has just reconstructed
ScanlineDone ==
    /\ locals.fn = "apply_filters"
    /\ pc = "filters"
    /\ locals.scanline_idx > 0

ReconstructedRow ==
    SubSeq(output, locals.scanline_len * (locals.scanline_idx - 1) + 1,
           locals.scanline_len * locals.scanline_idx)

\* C23: a scanline of filter type 0 (None) is copied unchanged: for every x
\* below scanline_len, image[row * scanline_len + x] is the x-th data byte
\* after the filter byte
NoneCopiesScanline ==
    (ScanlineDone /\ locals.filter_type = 0)
        => ReconstructedRow = locals.raw_scanline

MaxAdlerBytes == 24

\* the bytes fed to update
AdlerBytes == {1, 255}

\* the largest prime below 2^16, the modulus of Adler-32
AdlerPrime == 2 ^ 16 - 15

Adler32_new == [a |-> 1, b |-> 0]

\* self.a = self.a.wrapping_add(b as u16); self.b = self.b.wrapping_add(self.a)
Adler32_update(adler, byte) ==
    [a |-> (adler.a + byte) % W16,
     b |-> (adler.b + ((adler.a + byte) % W16)) % W16]

\* ((self.b as u32) << 16) + self.a as u32, least significant byte first
Adler32_digest(adler) ==
    <<adler.a % 256, adler.a \div 256, adler.b % 256, adler.b \div 256>>

Adler32_reset(adler) == [a |-> 1, b |-> 0]

AdlerLocals(adler, fed, sum, running) ==
    [fn |-> "Adler32", a |-> adler.a, b |-> adler.b, fed |-> fed, sum |-> sum,
     running |-> running]

InitAdler ==
    /\ input = <<>> /\ inner = <<>>
    /\ buf = new(input).buf
    /\ read_bit_pos = new(input).read_bit_pos
    /\ load_byte_pos = new(input).load_byte_pos
    /\ overflow_checks = FALSE
    /\ eof_mode = "keep"
    /\ panicked = FALSE
    /\ last = NoCall /\ pos = 0 /\ pure = TRUE /\ failed = FALSE
    /\ alphabet_lengths = <<>> /\ message = <<>> /\ decoded = <<>>
    /\ prefix = 0 /\ resolved = NotResolved
    /\ blocks = <<>> /\ output = <<>>
    /\ pc = "adler" /\ returned = "none"
    /\ block_header = NoHeader /\ n_blocks = 0 /\ header_at = 0
    /\ locals = AdlerLocals(Adler32_new, 0, 1, 0)

AdlerStepped(next_locals) ==
    /\ locals' = next_locals
    /\ UNCHANGED <<streamvars, callvars, huffvars, fixvars, blockvars>>

\* adler.update(byte)
AdlerUpdate ==
    /\ pc = "adler"
    /\ locals.fed < MaxAdlerBytes
    /\ \E byte \in AdlerBytes :
          AdlerStepped(AdlerLocals(Adler32_update(locals, byte), locals.fed + 1,
                                   locals.sum + byte,
                                   locals.running + locals.sum + byte))

\* adler.reset()
AdlerReset ==
    /\ pc = "adler"
    /\ locals.fed > 0
    /\ AdlerStepped(AdlerLocals(Adler32_reset(locals), 0, 1, 0))

NextAdler == AdlerUpdate \/ AdlerReset

SpecAdler == InitAdler /\ [][NextAdler]_vars

\* Adler-32 of the bytes fed since the last reset: b * 65536 + a with
\* a = (1 + sum of the bytes) mod 65521 and b = (sum of the running values
\* of a) mod 65521, least significant byte first
StandardAdler ==
    <<(locals.sum % AdlerPrime) % 256, (locals.sum % AdlerPrime) \div 256,
      (locals.running % AdlerPrime) % 256, (locals.running % AdlerPrime) \div 256>>

\* C26: after any bytes fed one by one to update, digest is the standard
\* Adler-32 of those bytes, and reset gives back the state of new
AdlerIsStandard ==
    locals.fn = "Adler32" =>
        /\ Adler32_digest(locals) = StandardAdler
        /\ locals.fed = 0 => (locals.a = Adler32_new.a /\ locals.b = Adler32_new.b)

(***************************************************************************)
(* Properties of extract_alphabet                                          *)
(***************************************************************************)
\* the code length the list of (symbol, length) pairs gives symbol i: 0
\* when the list has no pair for it
LengthOfSymbol(literal_code_lengths, i) ==
    IF \E k \in 1..Len(literal_code_lengths) : literal_code_lengths[k][1] = i
    THEN literal_code_lengths[CHOOSE k \in 1..Len(literal_code_lengths) :
                                 literal_code_lengths[k][1] = i][2]
    ELSE 0

\* the code lengths of the symbols 0 .. cl_symbol - 1
Expansion(literal_code_lengths, cl_symbol) ==
    [i \in 1..cl_symbol |-> LengthOfSymbol(literal_code_lengths, i - 1)]

\* what a code-length symbol adds to the expansion of the symbols before it:
\* its own length, or a run of the previous length or of zeros
RunOf(act, before) ==
    IF act.kind = "CodeLength" THEN <<act.n>>
    ELSE IF act.kind = "CopyLastLength"
    THEN [i \in 1..act.n |-> before[Len(before)]]
    ELSE [i \in 1..act.n |-> 0]

\* the code-length symbol the next iteration of extract_alphabet reads
NextExtractAction ==
    ExtractAction_from_bit_stream(Stream,
                                  from_code_lengths(locals.code_lengths,
                                                    overflow_checks),
                                  eof_mode)

\* every iteration of extract_alphabet appends the run of its symbol, and a
\* repeat of the previous length with no length before it fails
RunsExpanded ==
    [][(/\ pc = "extract"
        /\ locals.cl_symbol < locals.alphabet_size
        /\ NextExtractAction.r = "ok")
          => IF /\ NextExtractAction.v.kind = "CopyLastLength"
                /\ locals.cl_symbol = 0
             THEN pc' = "returned" /\ returned' = "bail"
             ELSE /\ pc' = "extract"
                  /\ Expansion(locals'.literal_code_lengths, locals'.cl_symbol)
                        = Expansion(locals.literal_code_lengths, locals.cl_symbol)
                             \o RunOf(NextExtractAction.v,
                                      Expansion(locals.literal_code_lengths,
                                                locals.cl_symbol))]_vars

\* C27: extract_alphabet gives each symbol below alphabet_size the entry of
\* the run-length expansion at its index (16 repeats the previous length
\* 3 + 2 bits times, 17 gives 3 + 3 bits zeros, 18 gives 11 + 7 bits zeros),
\* a 16 with no previous entry fails, and no symbol at or past alphabet_size
\* is given a length.
AlphabetIsExpansion ==
    /\ RunsExpanded
    /\ [](pc = "extract"
            => \A k \in 1..Len(locals.literal_code_lengths) :
                  locals.literal_code_lengths[k][1] < locals.alphabet_size)

(***************************************************************************)
(* Specification SpecDecoderBits: the BitStream calls of the decoder, in   *)
(* every order: peeks and reads of up to 32 bits, a peek followed by a     *)
(* skip of at most the bits peeked (HuffmanAlphabet::read_next),           *)
(* skip_to_start_of_byte, read_next_byte, read_u16_le and get_mut          *)
(***************************************************************************)
\* the widths the decoder reads: header fields, extra bits, code lengths up
\* to 15 bits, and the largest width peek_bits allows
DecoderWidths == {1, 3, 7, 15, 32}

DecoderPeek ==
    \E n \in DecoderWidths, bo \in BitOrder :
        Called("peek_bits", n, bo, peek_bits(Stream, n, bo, eof_mode), 0)

DecoderRead ==
    \E n \in DecoderWidths, bo \in BitOrder :
        Called("read_bits", n, bo, read_bits(Stream, n, bo, eof_mode), n)

\* let code = bits.peek_bits(n, ..)?; bits.skip_bits(k) with k <= n
DecoderPeekThenSkip ==
    \E n \in DecoderWidths, k \in DecoderWidths :
        /\ k <= n
        /\ Called("read_next", n, "MsbFirst",
                  Then(peek_bits(Stream, n, "MsbFirst", eof_mode),
                       LAMBDA code : skip_bits(code.s, k)),
                  k)

DecoderSkipToStartOfByte ==
    Called("skip_to_start_of_byte", 0, "LsbFirst", skip_to_start_of_byte(Stream),
           ToBoundary(pos))

DecoderReadNextByte ==
    Called("read_next_byte", 8, "LsbFirst", read_next_byte(Stream, eof_mode),
           ToBoundary(pos) + 8)

DecoderReadU16Le ==
    Called("read_u16_le", 16, "LsbFirst", read_u16_le(Stream, eof_mode),
           ToBoundary(pos) + 16)

\* bits.get_mut(), which resets the buffer
DecoderGetMut ==
    /\ load_byte_pos > 0
    /\ Called("get_mut", 0, "LsbFirst", Ret("ok", get_mut(Stream), U64Zero), 0)

NextDecoderBits ==
    \/ DecoderPeek
    \/ DecoderRead
    \/ DecoderPeekThenSkip
    \/ DecoderSkipToStartOfByte
    \/ DecoderReadNextByte
    \/ DecoderReadU16Le
    \/ DecoderGetMut

SpecDecoderBits == InitBits /\ [][NextDecoderBits]_vars

\* C28: in every sequence of the BitStream calls the decoder makes, the
\* assertion of load_bytes (load_byte_pos + n_bytes <= buf.len()) holds and
\* no call indexes past the 5-byte buffer: no call panics, at most BUF_LEN
\* bytes are loaded and the read position stays within the loaded bytes.
BufferNeverOverrun ==
    /\ ~panicked
    /\ load_byte_pos <= BUF_LEN
    /\ read_bit_pos <= 8 * load_byte_pos

\* a peek of 32 bits from the middle of a byte, which compacts the buffer
\* and fills all of its 5 bytes
BufferNeverOverrunWitness ==
    /\ last.op = "peek_bits"
    /\ last.r = "ok"
    /\ last.compacted
    /\ load_byte_pos = BUF_LEN
    /\ read_bit_pos % 8 # 0
    /\ ~panicked

\* the list extract_alphabet has collected when it leaves its loop
ExtractedList ==
    /\ pc = "extract"
    /\ locals.cl_symbol >= locals.alphabet_size

\* C29: from_code_lengths returns an alphabet for every list whose lengths
\* are all in 0..=15, the list of zeros only included: extract_alphabet,
\* which builds the alphabet of the list it has collected, does not panic
\* there, so a dynamic block that declares only zero-length distance codes
\* is decoded.
AlphabetOfEveryList ==
    [][(/\ ExtractedList
        /\ \A k \in 1..Len(locals.literal_code_lengths) :
              locals.literal_code_lengths[k][2] \in 0..15)
          => returned' # "panic"]_vars

\* the input is a well-formed deflate stream with nothing after its last
\* block: stored blocks with NLEN the complement of LEN, Huffman blocks, the
\* last block and only the last marked final, and after it only the zero
\* bits that fill its last byte
WellFormedStream ==
    /\ Len(blocks) >= 1
    /\ \A k \in 1..Len(blocks) :
          /\ blocks[k].kind \in {"NoCompression", "FixedHuffman", "DynamicHuffman"}
          /\ blocks[k].kind = "NoCompression"
                => blocks[k].nlen = 65535 - Len(blocks[k].data)
          /\ blocks[k].final = (k = Len(blocks))
    /\ 8 * Len(input) - blocks[Len(blocks)].end < 8

\* C30: decompress_blocks succeeds on a well-formed stream that ends with its
\* last block: read_next decodes a symbol whenever the input still holds its
\* whole code, also when fewer than max_code_length bits are left, as for the
\* 7-bit end-of-block code of a final fixed block that ends in the last byte.
WellFormedStreamSucceeds ==
    (pc = "returned" /\ WellFormedStream) => returned = "ok"

====
